---- MODULE Spec2Model ----
(***************************************************************************)
(* Model of the per-leg execution engine of the Sehwag breakout strategy   *)
(* (src/core/strategy.py): the leg thread (wait, breakout check, wait &    *)
(* trade confirmation, entry, monitor loop), the streaming price callback  *)
(* thread, the unified position management and the exit path.             *)
(*                                                                         *)
(* Numbers.  Python floats are modelled as exact rationals <<n, d>> with   *)
(* d > 0, kept in lowest terms.  Optional[float] None is <<0, 0>> and a    *)
(* key missing from a dict is <<1, 0>>.  IEEE rounding is not modelled.    *)
(* Time is an integer number of abstract seconds.                          *)
(***************************************************************************)
EXTENDS Integers, Sequences, FiniteSets, TLC

\* ------------------------------------------------------------------------
\* Bounds of the model
\* ------------------------------------------------------------------------
MaxTime == 3

MaxResets == 2

MaxTicks == 5

MaxFeedTime == 30

MaxCalls == 2

\* ------------------------------------------------------------------------
\* Exact arithmetic standing for Python float arithmetic
\* ------------------------------------------------------------------------
None == <<0, 0>>

Absent == <<1, 0>>

\* the string 'null' (or 'none', '') that a quoted YAML value yields
NullString == <<2, 0>>

IsNum(x) == x[2] # 0

\* Python truthiness of an Optional[float]: neither None nor 0.0
Truthy(x) == IsNum(x) /\ x[1] # 0

Abs(n) == IF n < 0 THEN -n ELSE n

GCD[a \in Nat, b \in Nat] == IF b = 0 THEN a ELSE GCD[b, a % b]

\* Every operator below binds its operands once (x \in {x0}) before using
\* them, so that a nested expression is evaluated a single time.
Norm(n0, d0) ==
    CHOOSE r \in { <<(IF d < 0 THEN -n ELSE n) \div g, Abs(d) \div g>> :
                     <<n, d, g>> \in { <<n1, d1, GCD[Abs(n1), Abs(d1)]>> :
                                         <<n1, d1>> \in {<<n0, d0>>} } } : TRUE

R(n) == <<n, 1>>

RAdd(a0, b0) ==
    CHOOSE r \in { Norm(a[1] * b[2] + b[1] * a[2], a[2] * b[2]) :
                     <<a, b>> \in {<<a0, b0>>} } : TRUE

RSub(a0, b0) ==
    CHOOSE r \in { Norm(a[1] * b[2] - b[1] * a[2], a[2] * b[2]) :
                     <<a, b>> \in {<<a0, b0>>} } : TRUE

RMul(a0, b0) ==
    CHOOSE r \in { Norm(a[1] * b[1], a[2] * b[2]) :
                     <<a, b>> \in {<<a0, b0>>} } : TRUE

RDiv(a0, b0) ==
    CHOOSE r \in { Norm(a[1] * b[2], a[2] * b[1]) :
                     <<a, b>> \in {<<a0, b0>>} } : TRUE

RLe(a0, b0) == \E <<a, b>> \in {<<a0, b0>>} : a[1] * b[2] <= b[1] * a[2]

RLt(a0, b0) == \E <<a, b>> \in {<<a0, b0>>} : a[1] * b[2] < b[1] * a[2]

RGe(a, b) == RLe(b, a)

RGt(a, b) == RLt(b, a)

\* int(x): truncation toward zero
RInt(a) == IF a[1] >= 0 THEN a[1] \div a[2] ELSE -((-a[1]) \div a[2])

\* x * (1 + pct / 100)
ScaleUp(x, pct) == RMul(x, RAdd(R(1), RDiv(pct, R(100))))

\* x * (1 - pct / 100)
ScaleDown(x, pct) == RMul(x, RSub(R(1), RDiv(pct, R(100))))

\* (price - entry) / entry * 100
PctChange(price, entry) == RMul(RDiv(RSub(price, entry), entry), R(100))

\* ------------------------------------------------------------------------
\* State
\* ------------------------------------------------------------------------
VARIABLES
    now,        \* wall clock, time.time() / datetime.now()
    mkt,        \* price the option currently trades at (quote / stream source)
    wt,         \* locals of each running _wait_for_trade_confirmation call
    sched,      \* the leg's schedule, breakout levels and quote grid
    config,     \* leg_state.config (risk keys; progressive lock rewrites one)
    defaults,   \* leg_state.strategy_defaults
    leg,        \* the LegState object
    pc,         \* where each thread stands in the code
    loc,        \* local variables of each thread
    state_lock, \* owner of SehwagStrategy.state_lock ("" when free)
    broker,     \* the broker's order book for the leg, OrderManager switches
    db,         \* rows written through SehwagPersistence
    feed,       \* the WebSocket LTP client
    hist        \* prices handed to _handle_price_update by the monitor loop

vars == <<now, mkt, wt, sched, config, defaults, leg, pc, loc, state_lock,
          broker, db, feed, hist>>

\* everything but the confirmation locals, the clock and the market
lifeVars == <<sched, config, defaults, leg, pc, loc, state_lock, broker, db,
              feed, hist>>

\* everything but the position of the threads and their locals
restVars == <<now, mkt, wt, sched, config, defaults, leg, state_lock, broker,
              db, feed, hist>>

WLegs == {1, 2}

\* ------------------------------------------------------------------------
\* Environment: clock and market
\* ------------------------------------------------------------------------
WtPrices == {R(98), R(100), R(103)}

Tick ==
    /\ now < MaxTime
    /\ now' = now + 1
    /\ UNCHANGED <<mkt, wt, lifeVars>>

MarketMove ==
    /\ \E p \in WtPrices : p # mkt /\ mkt' = p
    /\ UNCHANGED <<now, wt, lifeVars>>


\* ------------------------------------------------------------------------
\* _wait_for_trade_confirmation (wait & trade with reset)
\* ------------------------------------------------------------------------
WtIdle(thr, tmo, ren, rdrop) ==
    [ status |-> "init",
      threshold_pct |-> thr, timeout |-> tmo,
      reset_enabled |-> ren, reset_drop_pct |-> rdrop,
      reference_price |-> None, target_price |-> None,
      highest_since_reference |-> None, reset_count |-> 0,
      start_time |-> 0, current_price |-> None ]

\* Lines 803-845: initial quote, reference, target, peak, start of the timer.
WtBegin(w, quote, t) ==
    IF ~IsNum(quote)
    THEN [w EXCEPT !.status = "no_initial_price"]
    ELSE [w EXCEPT !.status = "polling",
                   !.reference_price = quote,
                   !.target_price = ScaleUp(quote, w.threshold_pct),
                   !.highest_since_reference = quote,
                   !.reset_count = 0,
                   !.start_time = t]

\* Lines 882-895: the reset of reference, target and peak on a retrace.
WtResetDueFromReference(w, cur, peak) ==
    /\ w.reset_enabled
    /\ Truthy(w.reset_drop_pct)
    /\ RGe(RMul(RDiv(RSub(w.reference_price, cur), w.reference_price), R(100)),
           w.reset_drop_pct)

WtResetDue(w, cur, peak) ==
    /\ w.reset_enabled
    /\ Truthy(w.reset_drop_pct)
    /\ RGe(RMul(RDiv(RSub(peak, cur), peak), R(100)), w.reset_drop_pct)

\* Lines 925-936: the timeout test made at the end of every iteration.
WtTimedOutExtended(w, t) == (t - w.start_time) > w.timeout + w.reset_count

WtTimedOut(w, t) == (t - w.start_time) > w.timeout

\* an iteration that does not raise the running peak
WtPollStalePeak(w0, cur, t) ==
    LET w == [w0 EXCEPT !.current_price = cur] IN
    IF Truthy(cur)
    THEN IF RGe(cur, w.target_price)
         THEN [w EXCEPT !.status = "success"]
         ELSE IF WtTimedOut(w, t)
              THEN [w EXCEPT !.status = "timeout"]
              ELSE w
    ELSE IF WtTimedOut(w, t)
         THEN [w EXCEPT !.status = "timeout"]
         ELSE w

\* Lines 849-938: one iteration of the polling loop with polled price cur
\* (None when neither the stream nor the quote call gave a price) at time t.
WtPoll(w0, cur, t) ==
    LET w == [w0 EXCEPT !.current_price = cur] IN
    IF Truthy(cur)
    THEN LET peak == IF RGt(cur, w.highest_since_reference)
                     THEN cur ELSE w.highest_since_reference
             up   == [w EXCEPT !.highest_since_reference = peak]
         IN  IF RGe(cur, w.target_price)
             THEN [up EXCEPT !.status = "success"]
             ELSE LET re == IF WtResetDue(w, cur, peak)
                            THEN [up EXCEPT !.reset_count = w.reset_count + 1,
                                            !.reference_price = cur,
                                            !.target_price = ScaleUp(cur, w.threshold_pct),
                                            !.highest_since_reference = cur]
                            ELSE up
                  IN  IF WtTimedOut(w, t)
                      THEN [re EXCEPT !.status = "timeout"]
                      ELSE re
    ELSE IF WtTimedOut(w, t)
         THEN [w EXCEPT !.status = "timeout"]
         ELSE w

WtStart(l) ==
    /\ wt[l].status = "init"
    /\ \E avail \in BOOLEAN :
         wt' = [wt EXCEPT ![l] = WtBegin(wt[l], IF avail THEN mkt ELSE None, now)]
    /\ UNCHANGED <<now, mkt, lifeVars>>

WtIterate(l) ==
    /\ wt[l].status = "polling"
    /\ \E avail \in BOOLEAN :
         LET w2 == WtPoll(wt[l], IF avail THEN mkt ELSE None, now) IN
         /\ w2.reset_count <= MaxResets
         /\ wt' = [wt EXCEPT ![l] = w2]
    /\ UNCHANGED <<now, mkt, lifeVars>>

\* ------------------------------------------------------------------------
\* The leg object, its configuration and the threads working on it
\* ------------------------------------------------------------------------
Threads == {"leg", "ws"}

\* leg_state.exit_time is None
NoTime == -1

\* the 0.5 points kept between the trailed exit target and the profit
ProfitBuffer == <<1, 2>>

RiskKeys ==
    {"initial_sl_pct", "sl_trail_trigger_pct", "sl_trail_move_pct",
     "auto_close_profit_pct", "first_lock_pct", "trail_trigger_pct",
     "trail_move_pct", "lock_trigger_pct", "lock_profit_pct",
     "profit_lock_step", "profit_step_threshold"}

NoConfig == [k \in RiskKeys |-> Absent]

\* value is None or one of the strings 'null', 'none', ''
Disabled(value) == value \in {None, NullString}

\* get_param of _manage_position_unified, with the safe_float applied to its
\* result (the identity on numbers and None)
GetParam(key, default, allow_strategy_fallback) ==
    IF config[key] # Absent
    THEN IF Disabled(config[key]) THEN None ELSE config[key]
    ELSE IF allow_strategy_fallback /\ defaults[key] # Absent
    THEN IF Disabled(defaults[key]) THEN None ELSE defaults[key]
    ELSE default

\* LegState.__init__: initial_sl_pct
InitialSlPct(cfg, dfl) ==
    LET initial_sl == IF cfg["initial_sl_pct"] # Absent
                      THEN cfg["initial_sl_pct"]
                      ELSE IF dfl["initial_sl_pct"] # Absent
                           THEN dfl["initial_sl_pct"] ELSE None
    IN  IF initial_sl # None THEN initial_sl ELSE R(7)

\* LegState.__init__
LegIdle(cfg, dfl) ==
    [ symbol |-> FALSE, entry_direction |-> "", entry_price |-> None,
      entry_order_id |-> FALSE, sl_order_id |-> FALSE,
      initial_sl_pct |-> InitialSlPct(cfg, dfl),
      current_sl |-> None, highest_price |-> None,
      last_sl_trail_level |-> R(0),
      first_lock_achieved |-> FALSE, profit_exit_target |-> None,
      last_trail_level |-> R(0),
      is_active |-> FALSE, exiting |-> FALSE,
      exit_reason |-> "", exit_price |-> None,
      profit_level_for_lock_increase |-> Absent,
      last_price |-> None, stale_price_count |-> 0,
      last_staleness_check |-> 0 ]

\* LegState.calculate_pnl, the percentage
PnlPct(price) ==
    IF ~IsNum(leg.entry_price) \/ ~IsNum(price) THEN R(0)
    ELSE IF leg.entry_price[1] = 0 THEN R(0)
    ELSE PctChange(price, leg.entry_price)

LocIdle ==
    [ price |-> None, pnl_pct |-> None, reason |-> "", xprice |-> None,
      after |-> "", n |-> 0, delay_start |-> 0, distance |-> None,
      fill |-> None, outcome |-> "",
      attempt |-> 0, responses |-> <<>>, quote |-> None, source |-> "",
      fallback |-> FALSE,
      action |-> "", order_id |-> FALSE, calls |-> <<>>, result |-> "" ]

BrokerIdle ==
    [ entry_orders |-> 0, sl_orders |-> 0, sl_status |-> "none",
      sl_stop_price |-> None, modifies |-> 0, cancels |-> 0,
      exit_orders |-> 0, position |-> FALSE,
      test_mode |-> FALSE, auto_place_orders |-> TRUE,
      place_sl_order_enabled |-> TRUE ]

DbIdle ==
    [ entries |-> 0, exits |-> <<>>, session |-> "none", summary |-> FALSE ]

Jump(t, p, l) ==
    /\ pc' = [pc EXCEPT ![t] = p]
    /\ loc' = [loc EXCEPT ![t] = l]

\* the leg thread returns from _run_leg_thread
Finish(o) == Jump("leg", "done", [LocIdle EXCEPT !.outcome = o])

\* _handle_price_update returns to its caller: the monitor loop goes on to
\* its exit-time check, the stream callback returns to the receive loop
HandlerReturn(t) ==
    IF t = "leg"
    THEN Jump("leg", "mon_time", [LocIdle EXCEPT !.price = loc[t].price])
    ELSE Jump("ws", "ws_idle", LocIdle)

\* an exception leaves _handle_price_update: the monitor loop logs it, sleeps
\* and starts its next iteration; the stream callback logs it and returns
HandlerRaise(t) ==
    IF t = "leg"
    THEN Jump("leg", "mon_loop", LocIdle)
    ELSE Jump("ws", "ws_idle", LocIdle)

\* a call of _exit_leg_position(leg_state, xp, reason)
BeginExit(t, xp, reason, after) ==
    Jump(t, "x_lock", [loc[t] EXCEPT !.xprice = xp, !.reason = reason,
                                     !.after = after])

\* _exit_leg_position returns
ExitReturn(t) ==
    IF loc[t].after = "break" THEN Finish("monitor_ended") ELSE HandlerReturn(t)

\* ------------------------------------------------------------------------
\* _run_leg_thread up to the entry
\* ------------------------------------------------------------------------
EntryTimeReachedAlways == TRUE

EntryTimeReached == now >= sched.entry_time

\* _wait_for_time(entry_time)
WaitForTime ==
    /\ pc["leg"] = "wait_entry"
    /\ EntryTimeReached
    /\ Jump("leg", "exit_check", LocIdle)
    /\ UNCHANGED restVars

\* is_market_open: its first statement is "return True"
IsMarketOpen == TRUE

ExitTimePassed ==
    IF sched.exit_time = NoTime
    THEN now >= sched.end_time
    ELSE now >= sched.exit_time

\* lines 462-482: exit time already passed, market closed
RunLegThreadChecks ==
    /\ pc["leg"] = "exit_check"
    /\ IF ExitTimePassed THEN Finish("exit_time_passed")
       ELSE IF ~IsMarketOpen THEN Finish("market_closed")
       ELSE Jump("leg", "breakout", LocIdle)
    /\ UNCHANGED restVars

CheckBreakoutInclusive(current_spot) ==
    IF ~Truthy(current_spot) THEN <<"", R(0)>>
    ELSE IF RGe(current_spot, sched.highest_high)
         THEN <<"CE", RSub(current_spot, sched.highest_high)>>
    ELSE IF RLe(current_spot, sched.lowest_low)
         THEN <<"PE", RSub(sched.lowest_low, current_spot)>>
    ELSE <<"", R(0)>>

\* _check_breakout_condition: <<direction, distance>>
CheckBreakout(current_spot) ==
    IF ~Truthy(current_spot) THEN <<"", R(0)>>
    ELSE IF RGt(current_spot, sched.highest_high)
         THEN <<"CE", RSub(current_spot, sched.highest_high)>>
    ELSE IF RLt(current_spot, sched.lowest_low)
         THEN <<"PE", RSub(sched.lowest_low, current_spot)>>
    ELSE <<"", R(0)>>

BreakoutFound(direction) == direction # ""

\* lines 484-494
CheckBreakoutCondition(spot) ==
    /\ pc["leg"] = "breakout"
    /\ LET res == CheckBreakout(spot) IN
       IF ~BreakoutFound(res[1])
       THEN Finish("no_breakout") /\ UNCHANGED leg
       ELSE /\ leg' = [leg EXCEPT !.entry_direction = res[1]]
            /\ Jump("leg", "stabilize", [LocIdle EXCEPT !.distance = res[2]])
    /\ UNCHANGED <<now, mkt, wt, sched, config, defaults, state_lock, broker,
                   db, feed, hist>>

\* _wait_for_distance_stabilization: decide whether to delay
WaitForDistanceStabilization ==
    /\ pc["leg"] = "stabilize"
    /\ IF ~IsNum(sched.breakout_diff_threshold)
          \/ RLe(loc["leg"].distance, sched.breakout_diff_threshold)
       THEN Jump("leg", "strike", LocIdle)
       ELSE Jump("leg", "delaying", [LocIdle EXCEPT !.delay_start = now])
    /\ UNCHANGED restVars

\* _wait_for_distance_stabilization: the delay loop ends
DelayCompleted ==
    /\ pc["leg"] = "delaying"
    /\ ~((now - loc["leg"].delay_start) < sched.breakout_diff_delay_seconds)
    /\ Jump("leg", "strike", LocIdle)
    /\ UNCHANGED restVars

\* lines 503-505: _calculate_strike_from_type raises when it has no spot
CalculateStrike(ok) ==
    /\ pc["leg"] = "strike"
    /\ IF ok THEN Jump("leg", "confirm_start", LocIdle)
       ELSE Finish("thread_error")
    /\ UNCHANGED restVars

\* the locals of _wait_for_trade_confirmation are gone once it has returned
WtReturned(w, s) ==
    [WtIdle(w.threshold_pct, w.timeout, w.reset_enabled, w.reset_drop_pct)
        EXCEPT !.status = s]

\* lines 526-529, 803-845: the call of _wait_for_trade_confirmation
ConfirmationStart(quote) ==
    /\ pc["leg"] = "confirm_start"
    /\ LET w2 == WtBegin(wt[1], quote, now) IN
       IF w2.status = "polling"
       THEN /\ wt' = [wt EXCEPT ![1] = w2]
            /\ Jump("leg", "confirming", LocIdle)
       ELSE /\ wt' = [wt EXCEPT ![1] = WtReturned(w2, w2.status)]
            /\ Finish("confirmation_failed")
    /\ UNCHANGED <<now, mkt, sched, config, defaults, leg, state_lock, broker,
                   db, feed, hist>>

ConfirmationPassed(w) == w.status = "success"

\* lines 526-529, 849-938: one iteration of the polling loop
ConfirmationPoll(quote) ==
    /\ pc["leg"] = "confirming"
    /\ LET w2 == WtPoll(wt[1], quote, now) IN
       /\ w2.reset_count <= MaxResets
       /\ IF ConfirmationPassed(w2)
          THEN /\ wt' = [wt EXCEPT ![1] = WtReturned(w2, w2.status)]
               /\ Jump("leg", "pre_entry", LocIdle)
          ELSE IF w2.status = "polling"
          THEN /\ wt' = [wt EXCEPT ![1] = w2]
               /\ UNCHANGED <<pc, loc>>
          ELSE /\ wt' = [wt EXCEPT ![1] = WtReturned(w2, w2.status)]
               /\ Finish("confirmation_failed")
    /\ UNCHANGED <<now, mkt, sched, config, defaults, leg, state_lock, broker,
                   db, feed, hist>>

\* lines 533-543: second exit-time check, then the symbol is stored
PreEntryCheck ==
    /\ pc["leg"] = "pre_entry"
    /\ IF sched.exit_time # NoTime /\ now >= sched.exit_time
       THEN Finish("exit_time_passed") /\ UNCHANGED leg
       ELSE /\ leg' = [leg EXCEPT !.symbol = TRUE]
            /\ Jump("leg", "enter", LocIdle)
    /\ UNCHANGED <<now, mkt, wt, sched, config, defaults, state_lock, broker,
                   db, feed, hist>>

\* ------------------------------------------------------------------------
\* _enter_leg_position
\* ------------------------------------------------------------------------
ActiveWithoutOrderId(order_id) == TRUE

OrderAccepted(order_id) == order_id

\* lines 546-549, 943-970: the quote and the entry order.  ltp is the
\* quote (None when it failed), order_ok whether place_order returned an id.
EnterLegPosition(ltp, order_ok) ==
    /\ pc["leg"] = "enter"
    /\ IF ~leg.symbol \/ ~IsNum(ltp)
       THEN Finish("entry_failed") /\ UNCHANGED <<leg, broker>>
       ELSE IF ~OrderAccepted(order_ok)
       THEN /\ leg' = [leg EXCEPT !.entry_price = ltp]
            /\ broker' = [broker EXCEPT !.entry_orders = @ + 1]
            /\ Finish("entry_failed")
       ELSE /\ leg' = [leg EXCEPT !.entry_price = ltp,
                                  !.entry_order_id = order_ok]
            /\ broker' = [broker EXCEPT !.entry_orders = @ + 1,
                                        !.position = order_ok]
            /\ Jump("leg", "enter_fill", [LocIdle EXCEPT !.price = ltp])
    /\ UNCHANGED <<now, mkt, wt, sched, config, defaults, state_lock, db,
                   feed, hist>>

EntryPriceIndicative(ltp_price, actual_fill_price) == ltp_price

\* lines 974-979: the broker's fill price when one was resolved
EntryPrice(ltp_price, actual_fill_price) ==
    IF Truthy(actual_fill_price) /\ RGt(actual_fill_price, R(0))
    THEN actual_fill_price ELSE ltp_price

\* lines 973-990: get_fill_price and the entry price; fill is what
\* get_fill_price returned (None when it found none)
EnterReconcileFill(fill) ==
    /\ pc["leg"] = "enter_fill"
    /\ leg' = [leg EXCEPT !.entry_price = EntryPrice(loc["leg"].price, fill)]
    /\ Jump("leg", "enter_stop", [loc["leg"] EXCEPT !.fill = fill])
    /\ UNCHANGED <<now, mkt, wt, sched, config, defaults, state_lock, broker,
                   db, feed, hist>>

\* lines 993-994: the initial stop; a string as initial_sl_pct raises
\* TypeError, caught at 1040
EnterComputeStop ==
    /\ pc["leg"] = "enter_stop"
    /\ IF ~IsNum(leg.initial_sl_pct)
       THEN Finish("entry_failed") /\ UNCHANGED leg
       ELSE /\ leg' = [leg EXCEPT !.current_sl =
                          ScaleDown(leg.entry_price, leg.initial_sl_pct)]
            /\ Jump("leg", "enter_active", loc["leg"])
    /\ UNCHANGED <<now, mkt, wt, sched, config, defaults, state_lock, broker,
                   db, feed, hist>>

\* lines 997-998: the leg is marked active
EnterMarkActive ==
    /\ pc["leg"] = "enter_active"
    /\ leg' = [leg EXCEPT !.is_active = TRUE,
                          !.highest_price = leg.entry_price]
    /\ Jump("leg", "enter_sl_order", loc["leg"])
    /\ UNCHANGED <<now, mkt, wt, sched, config, defaults, state_lock, broker,
                   db, feed, hist>>

\* lines 1001-1038: place_sl_order at the stop; sl_ok whether it returned
\* an id
EnterPlaceSlOrder(sl_ok) ==
    /\ pc["leg"] = "enter_sl_order"
    /\ leg' = [leg EXCEPT !.sl_order_id = sl_ok]
    /\ broker' = IF sl_ok
                 THEN [broker EXCEPT !.sl_orders = @ + 1,
                                     !.sl_status = "pending",
                                     !.sl_stop_price = leg.current_sl]
                 ELSE broker
    /\ Jump("leg", "record_entry", LocIdle)
    /\ UNCHANGED <<now, mkt, wt, sched, config, defaults, state_lock, db,
                   feed, hist>>

\* lines 552-560: record_leg_entry; an exception ends the thread
RecordLegEntry(ok) ==
    /\ pc["leg"] = "record_entry"
    /\ IF ok
       THEN /\ db' = [db EXCEPT !.entries = @ + 1]
            /\ Jump("leg", "mon_register", LocIdle)
       ELSE Finish("thread_error") /\ UNCHANGED db
    /\ UNCHANGED <<now, mkt, wt, sched, config, defaults, leg, state_lock,
                   broker, feed, hist>>

\* ------------------------------------------------------------------------
\* _monitor_leg_position
\* ------------------------------------------------------------------------
\* lines 1097-1112: the price callback is registered with the stream client
RegisterCallback ==
    /\ pc["leg"] = "mon_register"
    /\ feed' = [feed EXCEPT !.registered = feed.ws_client]
    /\ Jump("leg", "mon_loop", LocIdle)
    /\ UNCHANGED <<now, mkt, wt, sched, config, defaults, leg, state_lock,
                   broker, db, hist>>

\* lines 1122-1177: loop test and price acquisition of one iteration.  quote
\* is what get_quote would return (None when it fails), stale whether the
\* staleness counter has reached its limit.
MonitorIterate(quote, stale) ==
    /\ pc["leg"] = "mon_loop"
    /\ IF ~leg.is_active
       THEN Finish("monitor_ended") /\ UNCHANGED hist
       ELSE LET ws_available == feed.ws_client /\ feed.connected
                ws_price     == IF ws_available THEN feed.last ELSE None
                use_fallback == ~ws_available \/ (stale /\ Truthy(ws_price))
                current_price ==
                    IF ~ws_available \/ use_fallback \/ ~Truthy(ws_price)
                    THEN IF IsNum(quote) THEN quote ELSE ws_price
                    ELSE ws_price
            IN  IF Truthy(current_price)
                THEN /\ sched.trace => Len(hist) < MaxTicks
                     /\ hist' = IF sched.trace
                                THEN Append(hist, current_price) ELSE hist
                     /\ Jump("leg", "h_guard",
                             [LocIdle EXCEPT !.price = current_price])
                ELSE /\ Jump("leg", "mon_time", LocIdle)
                     /\ UNCHANGED hist
    /\ UNCHANGED <<now, mkt, wt, sched, config, defaults, leg, state_lock,
                   broker, db, feed>>

\* lines 1180-1189: exit-time check at the end of an iteration
MonitorExitTime ==
    /\ pc["leg"] = "mon_time"
    /\ IF sched.exit_time # NoTime /\ now >= sched.exit_time
       THEN BeginExit("leg", loc["leg"].price, "TIME_EXIT", "break")
       ELSE Jump("leg", "mon_loop", LocIdle)
    /\ UNCHANGED restVars

\* ------------------------------------------------------------------------
\* The WebSocket receive loop and the broker, acting on their own
\* ------------------------------------------------------------------------
\* receive_loop: a market_data message; the registered callback runs on the
\* receiving thread
WsReceive(ltp) ==
    /\ pc["ws"] = "ws_idle"
    /\ feed.ws_client /\ feed.connected
    /\ feed' = [feed EXCEPT !.last = ltp]
    /\ IF feed.registered
       THEN Jump("ws", "h_guard", [LocIdle EXCEPT !.price = ltp])
       ELSE UNCHANGED <<pc, loc>>
    /\ UNCHANGED <<now, mkt, wt, sched, config, defaults, leg, state_lock,
                   broker, db, hist>>

\* the exchange triggers the resting stop order
BrokerSlFill ==
    /\ broker.sl_status = "pending"
    /\ broker' = [broker EXCEPT !.sl_status = "complete", !.position = FALSE]
    /\ UNCHANGED <<now, mkt, wt, sched, config, defaults, leg, pc, loc,
                   state_lock, db, feed, hist>>

\* modify_sl_order: only a pending order can be modified
ModifySlOrder(b, ok) ==
    IF ok /\ b.sl_status = "pending" THEN [b EXCEPT !.modifies = @ + 1] ELSE b

\* ------------------------------------------------------------------------
\* _handle_price_update
\* ------------------------------------------------------------------------
BreachedBelow(price, sl) == RLt(price, sl)

Breached(price, sl) == RLe(price, sl)

\* lines 1199-1273, 1276: guards, peak, P&L, the stop-breach decision
HandlePriceUpdate(t) ==
    /\ pc[t] = "h_guard"
    /\ LET current_price == loc[t].price IN
       IF ~leg.is_active \/ ~Truthy(current_price) \/ leg.exiting
       THEN HandlerReturn(t) /\ UNCHANGED leg
       ELSE /\ leg' = [leg EXCEPT !.highest_price =
                          IF RGt(current_price, @) THEN current_price ELSE @]
            /\ IF Breached(current_price, leg.current_sl)
               THEN IF leg.sl_order_id
                    THEN Jump(t, "h_status", loc[t])
                    ELSE BeginExit(t, current_price, "SL_BREACH", "handler")
               ELSE Jump(t, "m_trail",
                         [loc[t] EXCEPT !.pnl_pct = PnlPct(current_price)])
    /\ UNCHANGED <<now, mkt, wt, sched, config, defaults, state_lock, broker,
                   db, feed, hist>>

CheckSlOrderStatusNoExit(t, failed) ==
    /\ pc[t] = "h_status"
    /\ LET order_status == IF failed \/ ~leg.sl_order_id
                           THEN "unknown" ELSE broker.sl_status
       IN  IF order_status = "complete"
           THEN Jump(t, "h_brk_lock", loc[t])
           ELSE HandlerReturn(t)
    /\ UNCHANGED restVars

\* a handler that always takes the manual exit
CheckSlOrderStatusManual(t, failed) ==
    /\ pc[t] = "h_status"
    /\ BeginExit(t, loc[t].price, "SL_BREACH", "handler")
    /\ UNCHANGED restVars

\* lines 1234-1243, 1266-1272: check_order_status of the stop order
CheckSlOrderStatus(t, failed) ==
    /\ pc[t] = "h_status"
    /\ LET order_status == IF failed \/ ~leg.sl_order_id
                           THEN "unknown" ELSE broker.sl_status
       IN  IF order_status = "complete"
           THEN Jump(t, "h_brk_lock", loc[t])
           ELSE BeginExit(t, loc[t].price, "SL_BREACH", "handler")
    /\ UNCHANGED restVars

\* line 1246: with self.state_lock
BrokerCloseAcquire(t) ==
    /\ pc[t] = "h_brk_lock"
    /\ state_lock = ""
    /\ state_lock' = t
    /\ Jump(t, "h_brk_body", loc[t])
    /\ UNCHANGED <<now, mkt, wt, sched, config, defaults, leg, broker, db,
                   feed, hist>>

\* lines 1247-1251: the leg is marked closed; the lock is released
BrokerCloseMark(t) ==
    /\ pc[t] = "h_brk_body"
    /\ state_lock = t
    /\ leg' = [leg EXCEPT !.exiting = TRUE, !.is_active = FALSE,
                          !.sl_order_id = FALSE,
                          !.exit_price = loc[t].price,
                          !.exit_reason = "SL_EXECUTED_ON_BROKER"]
    /\ state_lock' = ""
    /\ Jump(t, "h_brk_record", loc[t])
    /\ UNCHANGED <<now, mkt, wt, sched, config, defaults, broker, db, feed,
                   hist>>

\* lines 1254-1265: record_leg_exit, return
BrokerCloseRecord(t) ==
    /\ pc[t] = "h_brk_record"
    /\ db' = [db EXCEPT !.exits = Append(@, "SL_EXECUTED_ON_BROKER")]
    /\ HandlerReturn(t)
    /\ UNCHANGED <<now, mkt, wt, sched, config, defaults, leg, state_lock,
                   broker, feed, hist>>

\* ------------------------------------------------------------------------
\* _manage_position_unified
\* ------------------------------------------------------------------------
\* lines 1392-1401: trailing stop, the decision
ManageTrailingSl(t) ==
    /\ pc[t] = "m_trail"
    /\ LET sl_trail_trigger == GetParam("sl_trail_trigger_pct", None, TRUE)
           sl_trail_move    == GetParam("sl_trail_move_pct", None, TRUE)
           pnl_pct          == loc[t].pnl_pct
           profit_increase  == RSub(pnl_pct, leg.last_sl_trail_level)
       IN  IF /\ Truthy(sl_trail_trigger) /\ Truthy(sl_trail_move)
              /\ RGt(pnl_pct, R(0))
              /\ RGe(profit_increase, sl_trail_trigger)
           THEN Jump(t, "m_trail_apply",
                     [loc[t] EXCEPT !.n = RInt(RDiv(profit_increase,
                                                    sl_trail_trigger))])
           ELSE Jump(t, "m_profit", loc[t])
    /\ UNCHANGED restVars

\* lines 1404-1444: the stop is raised and the broker order modified; the
\* success branch formats the undefined name sl_order_id (NameError)
ApplyTrailingSl(t, ok) ==
    /\ pc[t] = "m_trail_apply"
    /\ LET sl_trail_move == GetParam("sl_trail_move_pct", None, TRUE)
           new_sl_price  == ScaleUp(leg.current_sl,
                                    RMul(sl_trail_move, R(loc[t].n)))
           b2            == ModifySlOrder(broker, ok)
       IN  IF RGt(new_sl_price, leg.current_sl)
           THEN /\ leg' = [leg EXCEPT !.current_sl = new_sl_price,
                                      !.last_sl_trail_level = loc[t].pnl_pct]
                /\ IF leg.sl_order_id
                   THEN /\ broker' = b2
                        /\ IF b2 # broker
                           THEN HandlerRaise(t)
                           ELSE Jump(t, "m_profit", [loc[t] EXCEPT !.n = 0])
                   ELSE /\ UNCHANGED broker
                        /\ Jump(t, "m_profit", [loc[t] EXCEPT !.n = 0])
           ELSE /\ UNCHANGED <<leg, broker>>
                /\ Jump(t, "m_profit", [loc[t] EXCEPT !.n = 0])
    /\ UNCHANGED <<now, mkt, wt, sched, config, defaults, state_lock, db,
                   feed, hist>>

ProfitModeSimpleFirst ==
    IF GetParam("lock_profit_pct", None, FALSE) # None THEN "simple"
    ELSE "none"

\* which profit mode the configuration selects (lines 1466, 1600, 1618)
ProfitMode ==
    LET first_lock_pct    == GetParam("first_lock_pct", None, FALSE)
        trail_trigger_pct == GetParam("trail_trigger_pct", None, FALSE)
        trail_move_pct    == GetParam("trail_move_pct", None, FALSE)
        lock_profit_pct   == GetParam("lock_profit_pct", None, FALSE)
        profit_lock_step  == GetParam("profit_lock_step", None, FALSE)
        profit_step_threshold == GetParam("profit_step_threshold", None, FALSE)
    IN  IF /\ first_lock_pct # None /\ trail_trigger_pct # None
           /\ trail_move_pct # None
        THEN "lock_then_trail"
        ELSE IF /\ profit_lock_step # None /\ profit_step_threshold # None
                /\ lock_profit_pct # None
        THEN "progressive"
        ELSE IF lock_profit_pct # None THEN "simple"
        ELSE "none"

\* lines 1472-1530: stage 1 of lock-then-trail applied to the leg
LockStage1(l0, pnl_pct) ==
    LET first_lock_pct   == GetParam("first_lock_pct", None, FALSE)
        lock_trigger_pct == GetParam("lock_trigger_pct", first_lock_pct, TRUE)
        l1 == IF l0.profit_exit_target = None
              THEN [l0 EXCEPT !.last_trail_level = R(0),
                              !.first_lock_achieved = FALSE]
              ELSE l0
    IN  IF /\ ~l1.first_lock_achieved /\ IsNum(lock_trigger_pct)
           /\ RGe(pnl_pct, lock_trigger_pct)
        THEN [l1 EXCEPT !.first_lock_achieved = TRUE,
                        !.profit_exit_target = first_lock_pct,
                        !.last_trail_level = pnl_pct,
                        !.current_sl = IF l1.sl_order_id
                                       THEN ScaleUp(l1.entry_price, first_lock_pct)
                                       ELSE @]
        ELSE l1

\* lines 1447-1451, 1455-1542, 1600-1621: auto-close, then the profit mode
ManageProfit(t, ok) ==
    /\ pc[t] = "m_profit"
    /\ LET pnl_pct        == loc[t].pnl_pct
           current_price  == loc[t].price
           auto_close_pct == GetParam("auto_close_profit_pct", None, FALSE)
           lock_profit_pct == GetParam("lock_profit_pct", None, FALSE)
       IN
       IF auto_close_pct # None /\ RGe(pnl_pct, auto_close_pct)
       THEN /\ BeginExit(t, current_price, "AUTO_CLOSE", "handler")
            /\ UNCHANGED <<leg, config, broker>>
       ELSE IF ProfitMode = "lock_then_trail"
       THEN LET l2 == LockStage1(leg, pnl_pct)
                locked == l2.first_lock_achieved /\ ~leg.first_lock_achieved
                trail_trigger_pct == GetParam("trail_trigger_pct", None, FALSE)
                profit_increase == RSub(pnl_pct, l2.last_trail_level)
            IN  /\ leg' = l2
                /\ broker' = IF locked /\ leg.sl_order_id
                             THEN ModifySlOrder(broker, ok) ELSE broker
                /\ UNCHANGED config
                /\ IF /\ ~leg.first_lock_achieved
                      /\ GetParam("lock_trigger_pct",
                                  GetParam("first_lock_pct", None, FALSE),
                                  TRUE) = None
                   THEN \* line 1479 compares a float with None: TypeError
                        HandlerRaise(t)
                   ELSE IF /\ l2.first_lock_achieved
                           /\ l2.profit_exit_target # None
                           /\ RLe(pnl_pct, l2.profit_exit_target)
                   THEN BeginExit(t, current_price, "TRAIL_EXIT", "handler")
                   ELSE IF /\ l2.first_lock_achieved
                           /\ l2.profit_exit_target # None
                           /\ RGe(profit_increase, trail_trigger_pct)
                   THEN Jump(t, "m_lock_apply",
                             [loc[t] EXCEPT !.n = RInt(RDiv(profit_increase,
                                                            trail_trigger_pct))])
                   ELSE HandlerReturn(t)
       ELSE IF ProfitMode = "progressive"
       THEN LET step      == GetParam("profit_lock_step", None, FALSE)
                threshold == GetParam("profit_step_threshold", None, FALSE)
                level0 == IF leg.profit_level_for_lock_increase = Absent
                          THEN RAdd(lock_profit_pct, threshold)
                          ELSE leg.profit_level_for_lock_increase
                escalate == RGe(pnl_pct, level0)
                lock2  == IF escalate THEN RAdd(lock_profit_pct, step)
                          ELSE lock_profit_pct
            IN  /\ leg' = [leg EXCEPT !.profit_level_for_lock_increase =
                              IF escalate THEN RAdd(level0, threshold) ELSE level0]
                /\ config' = IF escalate
                             THEN [config EXCEPT !["lock_profit_pct"] = lock2]
                             ELSE config
                /\ UNCHANGED broker
                /\ IF RGe(pnl_pct, lock2)
                   THEN BeginExit(t, current_price, "PROFIT_LOCK", "handler")
                   ELSE HandlerReturn(t)
       ELSE IF ProfitMode = "simple"
       THEN /\ UNCHANGED <<leg, config, broker>>
            /\ IF RGe(pnl_pct, lock_profit_pct)
               THEN BeginExit(t, current_price, "PROFIT_LOCK", "handler")
               ELSE HandlerReturn(t)
       ELSE /\ UNCHANGED <<leg, config, broker>>
            /\ HandlerReturn(t)
    /\ UNCHANGED <<now, mkt, wt, sched, defaults, state_lock, db, feed, hist>>

TrailedTargetUncapped(target, trail_move_pct, intervals, pnl_pct) ==
    RAdd(target, RMul(trail_move_pct, R(intervals)))

\* lines 1543-1549: the raised exit target, capped below the profit
TrailedTarget(target, trail_move_pct, intervals, pnl_pct) ==
    LET new_target      == RAdd(target, RMul(trail_move_pct, R(intervals)))
        max_exit_target == RSub(pnl_pct, ProfitBuffer)
    IN  IF RGt(new_target, max_exit_target) THEN max_exit_target ELSE new_target

\* lines 1543-1580: stage 3 of lock-then-trail, the exit target is raised
ApplyProfitTrail(t, ok) ==
    /\ pc[t] = "m_lock_apply"
    /\ LET trail_move_pct == GetParam("trail_move_pct", None, FALSE)
           new_target == TrailedTarget(leg.profit_exit_target, trail_move_pct,
                                       loc[t].n, loc[t].pnl_pct)
       IN  /\ leg' = [leg EXCEPT !.profit_exit_target = new_target,
                                 !.last_trail_level = loc[t].pnl_pct,
                                 !.current_sl = IF leg.sl_order_id
                                                THEN ScaleUp(leg.entry_price, new_target)
                                                ELSE @]
           /\ broker' = IF leg.sl_order_id
                        THEN ModifySlOrder(broker, ok) ELSE broker
    /\ HandlerReturn(t)
    /\ UNCHANGED <<now, mkt, wt, sched, config, defaults, state_lock, db,
                   feed, hist>>

\* ------------------------------------------------------------------------
\* _exit_leg_position
\* ------------------------------------------------------------------------
\* an exit that enters the locked section without waiting for the lock
ExitAcquireNoWait(t) ==
    /\ pc[t] = "x_lock"
    /\ state_lock' = t
    /\ Jump(t, "x_check", loc[t])
    /\ UNCHANGED <<now, mkt, wt, sched, config, defaults, leg, broker, db,
                   feed, hist>>

\* line 1628: with self.state_lock
ExitAcquire(t) ==
    /\ pc[t] = "x_lock"
    /\ state_lock = ""
    /\ state_lock' = t
    /\ Jump(t, "x_check", loc[t])
    /\ UNCHANGED <<now, mkt, wt, sched, config, defaults, leg, broker, db,
                   feed, hist>>

\* an exit without the duplicate test
ExitCheckAndMarkNoTest(t) ==
    /\ pc[t] = "x_check"
    /\ state_lock = t
    /\ state_lock' = ""
    /\ leg' = [leg EXCEPT !.exiting = TRUE, !.is_active = FALSE]
    /\ Jump(t, "x_cancel", [loc[t] EXCEPT !.calls = <<>>])
    /\ UNCHANGED <<now, mkt, wt, sched, config, defaults, broker, db, feed,
                   hist>>

\* lines 1630-1636: duplicate test, the leg is marked as exiting
ExitCheckAndMark(t) ==
    /\ pc[t] = "x_check"
    /\ state_lock = t
    /\ state_lock' = ""
    /\ IF leg.exiting \/ ~leg.is_active
       THEN ExitReturn(t) /\ UNCHANGED leg
       ELSE /\ leg' = [leg EXCEPT !.exiting = TRUE, !.is_active = FALSE]
            /\ Jump(t, "x_cancel", [loc[t] EXCEPT !.calls = <<>>])
    /\ UNCHANGED <<now, mkt, wt, sched, config, defaults, broker, db, feed,
                   hist>>

\* what cancel_sl_order can do to its caller
CancelOutcomes == {"True", "False", "raises"}

\* a cancel that keeps the leg's reference to the stop order
ExitCancelSlKeepId(t, outcome) ==
    /\ pc[t] = "x_cancel"
    /\ IF leg.sl_order_id
       THEN /\ broker' = [broker EXCEPT
                            !.cancels = @ + 1,
                            !.sl_status = IF outcome = "True" /\ @ = "pending"
                                          THEN "cancelled" ELSE @]
            /\ UNCHANGED leg
            /\ Jump(t, "x_order",
                    [loc[t] EXCEPT !.calls = Append(@, "cancel_sl_order")])
       ELSE UNCHANGED <<leg, broker>> /\ Jump(t, "x_order", loc[t])
    /\ UNCHANGED <<now, mkt, wt, sched, config, defaults, state_lock, db,
                   feed, hist>>

\* an exit that gives up when the cancel did not succeed
ExitCancelSlOrGiveUp(t, outcome) ==
    /\ pc[t] = "x_cancel"
    /\ IF leg.sl_order_id
       THEN /\ broker' = [broker EXCEPT
                            !.cancels = @ + 1,
                            !.sl_status = IF outcome = "True" /\ @ = "pending"
                                          THEN "cancelled" ELSE @]
            /\ leg' = [leg EXCEPT !.sl_order_id = FALSE]
            /\ Jump(t, IF outcome = "True" THEN "x_order" ELSE "x_finish",
                    [loc[t] EXCEPT !.calls = Append(@, "cancel_sl_order")])
       ELSE UNCHANGED <<leg, broker>> /\ Jump(t, "x_order", loc[t])
    /\ UNCHANGED <<now, mkt, wt, sched, config, defaults, state_lock, db,
                   feed, hist>>

\* lines 1639-1662: best-effort cancel of the stop order; outcome is what
\* cancel_sl_order returned, or that it raised
ExitCancelSl(t, outcome) ==
    /\ pc[t] = "x_cancel"
    /\ IF leg.sl_order_id
       THEN /\ broker' = [broker EXCEPT
                            !.cancels = @ + 1,
                            !.sl_status = IF outcome = "True" /\ @ = "pending"
                                          THEN "cancelled" ELSE @]
            /\ leg' = [leg EXCEPT !.sl_order_id = FALSE]
            /\ Jump(t, "x_order",
                    [loc[t] EXCEPT !.calls = Append(@, "cancel_sl_order")])
       ELSE UNCHANGED <<leg, broker>> /\ Jump(t, "x_order", loc[t])
    /\ UNCHANGED <<now, mkt, wt, sched, config, defaults, state_lock, db,
                   feed, hist>>

\* lines 1671-1680: the closing order; place_order refuses it when
\* verify_position_exists finds no position
ExitPlaceOrder(t, ok, verified) ==
    /\ pc[t] = "x_order"
    /\ verified \/ ~broker.position
    /\ broker' = IF ok /\ verified
                 THEN [broker EXCEPT !.exit_orders = @ + 1, !.position = FALSE]
                 ELSE broker
    /\ Jump(t, "x_finish",
            [loc[t] EXCEPT !.calls = Append(@, "place_order"),
                           !.result = IF ok /\ verified
                                      THEN "ORDER_ID" ELSE "None"])
    /\ UNCHANGED <<now, mkt, wt, sched, config, defaults, leg, state_lock,
                   db, feed, hist>>

\* lines 1683-1732: exit fields, summary log, record_leg_exit.  Formatting
\* exit_price None in the summary raises, which skips the record.
ExitFinish(t) ==
    /\ pc[t] = "x_finish"
    /\ leg' = [leg EXCEPT !.exit_price = loc[t].xprice,
                          !.exit_reason = loc[t].reason]
    /\ db' = IF IsNum(loc[t].xprice)
             THEN [db EXCEPT !.exits = Append(@, loc[t].reason)]
             ELSE db
    /\ ExitReturn(t)
    /\ UNCHANGED <<now, mkt, wt, sched, config, defaults, state_lock, broker,
                   feed, hist>>

\* ------------------------------------------------------------------------
\* MarketDataManager.get_quote and get_underlying_price (market_data.py)
\* ------------------------------------------------------------------------
\* max_retries
MaxRetries == 3

\* what client.quotes can answer or do
Responses ==
    {"data_dict", "data_dict_zero", "ltp", "ltp_zero", "data_list",
     "data_list_zero", "data_list_empty", "unknown", "not_dict",
     "error_transient", "error", "key_error", "raises"}

\* the ltp a response carries
LtpOf(response) ==
    IF response \in {"data_dict", "ltp", "data_list"} THEN mkt
    ELSE IF response \in {"data_dict_zero", "ltp_zero", "data_list_zero"}
    THEN R(0)
    ELSE None

\* the function returns value to its caller, which goes on at loc[t].after
QuoteReturn(t, value, src) ==
    Jump(t, loc[t].after,
         [loc[t] EXCEPT !.quote = value, !.source = src, !.attempt = 0])

\* continue: the next round of "for attempt in range(max_retries)", or the
\* return None after the loop
QuoteContinue(t, l) ==
    IF l.attempt + 1 < MaxRetries
    THEN Jump(t, pc[t], [l EXCEPT !.attempt = @ + 1])
    ELSE Jump(t, l.after,
              [l EXCEPT !.quote = None, !.source = "rest", !.attempt = 0])

\* get_quote, lines 52-60: the cached stream price is tried first
GetQuoteStream(t) ==
    /\ pc[t] = "q_ws"
    /\ IF feed.ws_client /\ feed.connected /\ Truthy(feed.last)
       THEN QuoteReturn(t, feed.last, "stream")
       ELSE Jump(t, "q_rest", [loc[t] EXCEPT !.attempt = 0])
    /\ UNCHANGED restVars

\* get_quote, lines 63-128: one round of the retry loop, a call of
\* client.quotes and the handling of what it gave
GetQuoteAttempt(t, response) ==
    /\ pc[t] = "q_rest"
    /\ LET l == [loc[t] EXCEPT !.responses = Append(@, response)]
           last == ~(l.attempt < MaxRetries - 1)
       IN  IF response = "error_transient"
           THEN IF last THEN Jump(t, l.after, [l EXCEPT !.quote = None,
                                                        !.source = "rest",
                                                        !.attempt = 0])
                ELSE QuoteContinue(t, l)
           ELSE IF response = "error"
           THEN Jump(t, l.after, [l EXCEPT !.quote = None, !.source = "rest",
                                           !.attempt = 0])
           ELSE IF IsNum(LtpOf(response))
           THEN Jump(t, l.after, [l EXCEPT !.quote = LtpOf(response),
                                           !.source = "rest", !.attempt = 0])
           ELSE \* unexpected format, not a dict, KeyError, other exception
                IF last THEN Jump(t, l.after, [l EXCEPT !.quote = None,
                                                        !.source = "rest",
                                                        !.attempt = 0])
                ELSE QuoteContinue(t, l)
    /\ UNCHANGED restVars

\* get_underlying_price, lines 153-159: the cached stream price is tried first
GetUnderlyingStream(t) ==
    /\ pc[t] = "u_ws"
    /\ IF feed.ws_client /\ feed.connected /\ Truthy(feed.last)
       THEN QuoteReturn(t, feed.last, "stream")
       ELSE Jump(t, "u_rest", [loc[t] EXCEPT !.attempt = 0])
    /\ UNCHANGED restVars

\* get_underlying_price, lines 162-220: one round of the retry loop; on the
\* last round an exception is raised again (line 218)
GetUnderlyingAttempt(t, response) ==
    /\ pc[t] = "u_rest"
    /\ LET l == [loc[t] EXCEPT !.responses = Append(@, response)]
           last == ~(l.attempt < MaxRetries - 1)
           none == [l EXCEPT !.quote = None, !.source = "rest", !.attempt = 0]
       IN  IF response = "error_transient"
           THEN IF last THEN Jump(t, l.after, none) ELSE QuoteContinue(t, l)
           ELSE IF response = "error"
           THEN Jump(t, l.after, none)
           ELSE IF response \in {"data_dict", "data_list", "ltp", "ltp_zero"}
           THEN Jump(t, l.after, [l EXCEPT !.quote = LtpOf(response),
                                           !.source = "rest", !.attempt = 0])
           ELSE IF response \in {"key_error", "raises"}
           THEN IF last THEN Jump(t, "u_except", l) ELSE QuoteContinue(t, l)
           ELSE \* no ltp could be extracted
                IF last THEN Jump(t, l.after, none) ELSE QuoteContinue(t, l)
    /\ UNCHANGED restVars

GetUnderlyingPropagate(t) ==
    /\ pc[t] = "u_except"
    /\ Jump(t, "q_raised", loc[t])
    /\ UNCHANGED restVars

\* get_underlying_price, lines 222-224: the outer handler returns None
GetUnderlyingExcept(t) ==
    /\ pc[t] = "u_except"
    /\ QuoteReturn(t, None, "rest")
    /\ UNCHANGED restVars

\* ------------------------------------------------------------------------
\* _monitor_leg_position: the price acquisition with its staleness counter
\* ------------------------------------------------------------------------
\* _stale_price_count at which the warning is logged (line 1144)
StaleWarnCount == 10

\* _stale_price_count from which the fallback is used (line 1147)
StaleFallbackCount == 30

\* lines 1181-1189 for a leg without exit time: no exit, then the sleep,
\* during which elapsed seconds pass
MonitorSleep(elapsed) ==
    /\ pc["leg"] = "mon_time"
    /\ sched.exit_time = NoTime
    /\ now + elapsed <= MaxFeedTime
    /\ now' = now + elapsed
    /\ Jump("leg", "mon_loop", LocIdle)
    /\ UNCHANGED <<mkt, wt, sched, config, defaults, leg, state_lock, broker,
                   db, feed, hist>>

\* receive_loop of the stream client ends on an error (connected = False)
FeedDrop ==
    /\ feed.ws_client /\ feed.connected
    /\ feed' = [feed EXCEPT !.connected = FALSE]
    /\ UNCHANGED <<now, mkt, wt, sched, config, defaults, leg, pc, loc,
                   state_lock, broker, db, hist>>

\* lines 1174-1179: the price goes to _handle_price_update, or there is none
MonitorDispatch(l) ==
    IF Truthy(l.price)
    THEN Jump("leg", "h_guard", l)
    ELSE Jump("leg", "mon_time", LocIdle)

\* lines 1122-1165: loop test, cached stream price, staleness bookkeeping
MonitorAcquire ==
    /\ pc["leg"] = "mon_loop"
    /\ IF ~leg.is_active
       THEN Finish("monitor_ended") /\ UNCHANGED leg
       ELSE LET ws_available  == feed.ws_client /\ feed.connected
                current_price == IF ws_available THEN feed.last ELSE None
                both == /\ ws_available /\ Truthy(current_price)
                        /\ Truthy(leg.last_price)
                same == both /\ current_price = leg.last_price
                due  == same /\ now - leg.last_staleness_check >= 1
                count == IF due THEN leg.stale_price_count + 1
                         ELSE IF ws_available /\ Truthy(current_price)
                                 /\ ~same
                         THEN 0
                         ELSE leg.stale_price_count
                use_fallback ==
                    \/ ~ws_available
                    \/ due /\ count # StaleWarnCount
                           /\ count >= StaleFallbackCount
                l == [LocIdle EXCEPT !.price = current_price,
                                     !.source = "stream",
                                     !.fallback = use_fallback]
            IN  /\ leg' = IF due
                          THEN [leg EXCEPT !.stale_price_count = count,
                                           !.last_staleness_check = now]
                          ELSE IF ws_available /\ Truthy(current_price)
                                  /\ ~same
                          THEN [leg EXCEPT !.stale_price_count = 0,
                                           !.last_price = current_price,
                                           !.last_staleness_check = now]
                          ELSE leg
                /\ IF ~ws_available \/ use_fallback \/ ~Truthy(current_price)
                   THEN Jump("leg", "q_ws", [l EXCEPT !.after = "mon_quote"])
                   ELSE MonitorDispatch(l)
    /\ UNCHANGED <<now, mkt, wt, sched, config, defaults, state_lock, broker,
                   db, feed, hist>>

\* lines 1167-1179: the quote of get_quote replaces the price
MonitorApplyQuote ==
    /\ pc["leg"] = "mon_quote"
    /\ LET quote == loc["leg"].quote
           fresh == quote # None /\ Truthy(quote) /\ quote # leg.last_price
           l == IF quote # None
                THEN [loc["leg"] EXCEPT !.price = quote]
                ELSE [loc["leg"] EXCEPT !.source = "stream"]
       IN  /\ leg' = IF fresh
                     THEN [leg EXCEPT !.stale_price_count = 0,
                                      !.last_price = quote]
                     ELSE leg
           /\ MonitorDispatch(l)
    /\ UNCHANGED <<now, mkt, wt, sched, config, defaults, state_lock, broker,
                   db, feed, hist>>

\* ------------------------------------------------------------------------
\* OrderManager (order_manager.py): place_order with its position check,
\* modify_sl_order and cancel_sl_order, called one after the other
\* ------------------------------------------------------------------------
entry_action == "BUY"
exit_action == "SELL"

\* what client.positionbook() can give back
BookAnswers ==
    {"raises", "not_dict", "error_status", "empty", "other_symbol",
     "zero_quantity", "held"}

\* what placeorder, modifyorder and cancelorder can give back
OrderAnswers == {"success", "not_pending", "rejected", "raises"}

\* the caller starts place_order, modify_sl_order or cancel_sl_order
OrderManagerCall(t, op, action, id) ==
    /\ pc[t] = "om_idle"
    /\ loc[t].n < MaxCalls
    /\ Jump(t, op, [LocIdle EXCEPT !.n = loc[t].n + 1, !.action = action,
                                   !.order_id = id])
    /\ UNCHANGED restVars

\* the call returns value to its caller
OrderManagerReturn(t, l, value) ==
    Jump(t, "om_idle", [l EXCEPT !.result = value])

\* lines 52-105: verify_position_exists as a function of the book's answer
PositionExists(book) ==
    IF book \in {"raises", "not_dict", "error_status"} THEN TRUE
    ELSE book = "held"

\* a position check that reports a failed query as no position
PlaceOrderVerifyClosed(t, book) ==
    /\ pc[t] = "po_verify"
    /\ IF loc[t].action # exit_action
       THEN Jump(t, "po_send", loc[t])
       ELSE IF broker.test_mode \/ ~broker.auto_place_orders
       THEN Jump(t, "po_send", loc[t])
       ELSE /\ book = "held" <=> broker.position
            /\ LET l == [loc[t] EXCEPT !.calls = Append(@, "positionbook"),
                                       !.responses = Append(@, book)]
               IN  IF book = "held"
                   THEN Jump(t, "po_send", l)
                   ELSE OrderManagerReturn(t, l, "None")
    /\ UNCHANGED restVars

\* lines 119-125 with 52-66: the position check made for an exit order
PlaceOrderVerify(t, book) ==
    /\ pc[t] = "po_verify"
    /\ IF loc[t].action # exit_action
       THEN Jump(t, "po_send", loc[t])
       ELSE IF broker.test_mode \/ ~broker.auto_place_orders
       THEN Jump(t, "po_send", loc[t])
       ELSE /\ book = "held" <=> broker.position
            /\ LET l == [loc[t] EXCEPT !.calls = Append(@, "positionbook"),
                                       !.responses = Append(@, book)]
               IN  IF PositionExists(book)
                   THEN Jump(t, "po_send", l)
                   ELSE OrderManagerReturn(t, l, "None")
    /\ UNCHANGED restVars

\* lines 127-159: test and simulation ids, client.placeorder and its answer
PlaceOrderSend(t, resp) ==
    /\ pc[t] = "po_send"
    /\ resp \in {"success", "rejected", "raises"}
    /\ IF broker.test_mode
       THEN OrderManagerReturn(t, loc[t], "TEST_ORDER") /\ UNCHANGED broker
       ELSE IF ~broker.auto_place_orders
       THEN OrderManagerReturn(t, loc[t], "SIM_ORDER") /\ UNCHANGED broker
       ELSE LET l == [loc[t] EXCEPT !.calls = Append(@, "placeorder"),
                                    !.responses = Append(@, resp)]
                entry == loc[t].action = entry_action
            IN  /\ broker' =
                     IF resp # "success" THEN broker
                     ELSE IF entry
                     THEN [broker EXCEPT !.entry_orders = @ + 1,
                                         !.position = TRUE]
                     ELSE [broker EXCEPT !.exit_orders = @ + 1,
                                         !.position = FALSE]
                /\ OrderManagerReturn(t, l, IF resp = "success"
                                            THEN "ORDER_ID" ELSE "None")
    /\ UNCHANGED <<now, mkt, wt, sched, config, defaults, leg, state_lock,
                   db, feed, hist>>

\* the answers the broker can give for the stop order in its present state
SlAnswers ==
    IF broker.sl_status = "pending" THEN {"success", "rejected", "raises"}
    ELSE {"not_pending", "rejected", "raises"}

\* lines 523-586: modify_sl_order
ModifySlOrderCall(t, resp) ==
    /\ pc[t] = "sl_modify"
    /\ resp \in SlAnswers
    /\ IF ~broker.auto_place_orders \/ ~broker.place_sl_order_enabled
          \/ ~loc[t].order_id
       THEN OrderManagerReturn(t, loc[t], "False") /\ UNCHANGED broker
       ELSE IF broker.test_mode
       THEN OrderManagerReturn(t, loc[t], "True") /\ UNCHANGED broker
       ELSE LET l == [loc[t] EXCEPT !.calls = Append(@, "modifyorder"),
                                    !.responses = Append(@, resp)]
            IN  /\ broker' = ModifySlOrder(broker, resp = "success")
                /\ OrderManagerReturn(t, l, IF resp = "success"
                                            THEN "True" ELSE "False")
    /\ UNCHANGED <<now, mkt, wt, sched, config, defaults, leg, state_lock,
                   db, feed, hist>>

\* lines 588-630: cancel_sl_order
CancelSlOrderCall(t, resp) ==
    /\ pc[t] = "sl_cancel"
    /\ resp \in SlAnswers
    /\ IF ~broker.auto_place_orders \/ ~broker.place_sl_order_enabled
          \/ ~loc[t].order_id
       THEN OrderManagerReturn(t, loc[t], "False") /\ UNCHANGED broker
       ELSE IF broker.test_mode
       THEN OrderManagerReturn(t, loc[t], "True") /\ UNCHANGED broker
       ELSE LET l == [loc[t] EXCEPT !.calls = Append(@, "cancelorder"),
                                    !.responses = Append(@, resp)]
            IN  /\ broker' = [broker EXCEPT
                                !.cancels = @ + 1,
                                !.sl_status = IF resp = "success"
                                              THEN "cancelled" ELSE @]
                /\ OrderManagerReturn(t, l,
                       IF resp \in {"success", "not_pending"}
                       THEN "True" ELSE "False")
    /\ UNCHANGED <<now, mkt, wt, sched, config, defaults, leg, state_lock,
                   db, feed, hist>>

\* ------------------------------------------------------------------------
\* SehwagStrategy.__init__ and run: the startup fetches, the leg threads
\* and their join.  A leg thread is reduced to its outcomes.
\* ------------------------------------------------------------------------
SessionLegs == {"leg1", "leg2"}

\* the next leg, in the order of leg_states, that is not in done
NextLeg(done) ==
    IF "leg1" \notin done THEN "leg1" ELSE "leg2"

\* a constructor that goes on without the expiry or the range
StrategyInitLenient(expiry_ok, high_low_ok) ==
    /\ pc["main"] = "init"
    /\ pc' = [pc EXCEPT !["main"] = "run"]
    /\ loc' = [loc EXCEPT !["main"].expiry =
                             IF expiry_ok THEN "ok" ELSE "failed",
                          !["main"].high_low =
                             IF ~expiry_ok THEN ""
                             ELSE IF high_low_ok THEN "ok" ELSE "failed"]
    /\ UNCHANGED restVars

\* lines 188-196: _fetch_expiry_once, then _fetch_high_low_once; both raise
\* again what they caught, so the constructor fails and run is never called
StrategyInit(expiry_ok, high_low_ok) ==
    /\ pc["main"] = "init"
    /\ pc' = [pc EXCEPT !["main"] = IF expiry_ok /\ high_low_ok
                                    THEN "run" ELSE "aborted"]
    /\ loc' = [loc EXCEPT !["main"].expiry =
                             IF expiry_ok THEN "ok" ELSE "failed",
                          !["main"].high_low =
                             IF ~expiry_ok THEN ""
                             ELSE IF high_low_ok THEN "ok" ELSE "failed"]
    /\ UNCHANGED restVars

\* lines 305-325: pre-flight checks, persistence (a failure only disables
\* it), the leg states
RunSession(persistence_ok) ==
    /\ pc["main"] = "run"
    /\ pc' = [pc EXCEPT !["main"] = "start"]
    /\ db' = [db EXCEPT !.session = IF persistence_ok
                                    THEN "RUNNING" ELSE "none"]
    /\ UNCHANGED <<now, mkt, wt, sched, config, defaults, leg, loc,
                   state_lock, broker, feed, hist>>

\* lines 327-338: one thread per leg, started in order
StartLegThread(l) ==
    /\ pc["main"] = "start"
    /\ l = NextLeg(loc["main"].started)
    /\ pc' = [pc EXCEPT ![l] = "thread",
                        !["main"] = IF loc["main"].started \cup {l}
                                         = SessionLegs
                                    THEN "join" ELSE "start"]
    /\ loc' = [loc EXCEPT !["main"].started = @ \cup {l}]
    /\ UNCHANGED restVars

\* lines 340-342: thread.join() for each thread in order
JoinLegThread(l) ==
    /\ pc["main"] = "join"
    /\ l = NextLeg(loc["main"].joined)
    /\ pc[l] = "done"
    /\ pc' = [pc EXCEPT !["main"] = IF loc["main"].joined \cup {l}
                                         = SessionLegs
                                    THEN "summary" ELSE "join"]
    /\ loc' = [loc EXCEPT !["main"].joined = @ \cup {l}]
    /\ UNCHANGED restVars

\* lines 344-356: _print_summary, then close_session marks the session
FinishRun ==
    /\ pc["main"] = "summary"
    /\ pc' = [pc EXCEPT !["main"] = "finished"]
    /\ db' = [db EXCEPT !.summary = TRUE,
                        !.session = IF @ = "none" THEN @ ELSE "COMPLETED"]
    /\ UNCHANGED <<now, mkt, wt, sched, config, defaults, leg, loc,
                   state_lock, broker, feed, hist>>

\* lines 418-549 and 561-572: the leg thread up to the entry.  It returns
\* without entry, or an exception is caught at 561, or the entry fails, or
\* the leg is entered (is_active set by _enter_leg_position, line 998).
RunLegThread(l, outcome) ==
    /\ pc[l] = "thread"
    /\ outcome \in {"skipped", "thread_error", "entry_failed", "entered"}
    /\ pc' = [pc EXCEPT ![l] = IF outcome = "entered"
                               THEN "monitor" ELSE "done"]
    /\ leg' = [leg EXCEPT ![l] = [is_active |-> outcome = "entered",
                                  outcome |-> outcome]]
    /\ broker' = IF outcome \in {"entry_failed", "entered"}
                 THEN [broker EXCEPT !.entry_orders = @ + 1]
                 ELSE broker
    /\ UNCHANGED <<now, mkt, wt, sched, config, defaults, loc, state_lock,
                   db, feed, hist>>

\* lines 551-572: record_leg_entry and _monitor_leg_position.  The monitor
\* ends when an exit cleared is_active; an exception raised outside the
\* monitor's own try (record_leg_entry, the callback registration) is caught
\* at 561, which logs it and touches nothing.
MonitorLeg(l, outcome) ==
    /\ pc[l] = "monitor"
    /\ outcome \in {"closed", "thread_error"}
    /\ pc' = [pc EXCEPT ![l] = "done"]
    /\ leg' = [leg EXCEPT ![l] = [is_active |-> IF outcome = "closed"
                                                THEN FALSE
                                                ELSE leg[l].is_active,
                                  outcome |-> outcome]]
    /\ broker' = IF outcome = "closed"
                 THEN [broker EXCEPT !.exit_orders = @ + 1]
                 ELSE broker
    /\ UNCHANGED <<now, mkt, wt, sched, config, defaults, loc, state_lock,
                   db, feed, hist>>

\* ------------------------------------------------------------------------
\* WebSocketLTPClient.receive_loop shared by the legs: one receiving thread
\* runs the callbacks of every symbol while it holds subscription_lock.
\* A leg is reduced to its registration, its monitor loop and its exit.
\* ------------------------------------------------------------------------
\* websocket_ltp_client.py 283-303: a market_data message for leg l's
\* symbol; the price is cached, subscription_lock is taken and the callback
\* registered for the symbol, if any, is called on this thread
ReceiveLoop(l) ==
    /\ pc["ws"] = "ws_idle"
    /\ feed.subscription_lock = ""
    /\ IF l \in feed.price_callbacks
       THEN /\ feed' = [feed EXCEPT !.last_prices = @ \cup {l},
                                    !.subscription_lock = "ws"]
            /\ pc' = [pc EXCEPT !["ws"] = "callback"]
            /\ loc' = [loc EXCEPT !["ws"].symbol = l]
       ELSE /\ feed' = [feed EXCEPT !.last_prices = @ \cup {l}]
            /\ UNCHANGED <<pc, loc>>
    /\ UNCHANGED <<now, mkt, wt, sched, config, defaults, leg, state_lock,
                   broker, db, hist>>

\* strategy.py 1099-1110 with 1197-1204 and 1626-1636: on_price_update runs
\* _handle_price_update; the price either leaves the leg open or starts its
\* exit, which a closed or exiting leg skips
PriceCallback(exit) ==
    /\ pc["ws"] = "callback"
    /\ LET l == loc["ws"].symbol
       IN  IF exit /\ leg[l].is_active /\ ~leg[l].exiting
           THEN /\ leg' = [leg EXCEPT ![l] = [is_active |-> FALSE,
                                              exiting |-> TRUE]]
                /\ pc' = [pc EXCEPT !["ws"] = "callback_exit"]
                /\ UNCHANGED feed
           ELSE /\ pc' = [pc EXCEPT !["ws"] = "ws_idle"]
                /\ feed' = [feed EXCEPT !.subscription_lock = ""]
                /\ UNCHANGED leg
    /\ UNCHANGED <<now, mkt, wt, sched, config, defaults, loc, state_lock,
                   broker, db, hist>>

\* strategy.py 1639-1714 on the receiving thread: the cancel and the closing
\* order have returned, the callback returns and the lock is released
PriceCallbackExit ==
    /\ pc["ws"] = "callback_exit"
    /\ pc' = [pc EXCEPT !["ws"] = "ws_idle"]
    /\ feed' = [feed EXCEPT !.subscription_lock = ""]
    /\ broker' = [broker EXCEPT !.exit_orders = @ + 1]
    /\ UNCHANGED <<now, mkt, wt, sched, config, defaults, leg, loc,
                   state_lock, db, hist>>

\* strategy.py 1112 and websocket_ltp_client.py 237-248: the leg's thread
\* registers its callback under subscription_lock
OnPriceUpdate(l) ==
    /\ pc[l] = "register"
    /\ feed.subscription_lock = ""
    /\ feed' = [feed EXCEPT !.price_callbacks = @ \cup {l}]
    /\ pc' = [pc EXCEPT ![l] = "monitor"]
    /\ UNCHANGED <<now, mkt, wt, sched, config, defaults, leg, loc,
                   state_lock, broker, db, hist>>

\* strategy.py 1121-1195: an iteration of the leg's own monitor loop; it
\* ends the loop for a closed leg, or starts an exit, or goes on
MonitorThread(l, exit) ==
    /\ pc[l] = "monitor"
    /\ IF ~leg[l].is_active
       THEN pc' = [pc EXCEPT ![l] = "done"] /\ UNCHANGED leg
       ELSE /\ exit /\ ~leg[l].exiting
            /\ leg' = [leg EXCEPT ![l] = [is_active |-> FALSE,
                                          exiting |-> TRUE]]
            /\ pc' = [pc EXCEPT ![l] = "exit"]
    /\ UNCHANGED <<now, mkt, wt, sched, config, defaults, loc, state_lock,
                   broker, db, feed, hist>>

\* strategy.py 1639-1714 on the leg's thread: the broker calls of the exit
\* have returned
MonitorThreadExit(l) ==
    /\ pc[l] = "exit"
    /\ pc' = [pc EXCEPT ![l] = "monitor"]
    /\ broker' = [broker EXCEPT !.exit_orders = @ + 1]
    /\ UNCHANGED <<now, mkt, wt, sched, config, defaults, leg, loc,
                   state_lock, db, feed, hist>>

\* ------------------------------------------------------------------------
\* Configurations
\* ------------------------------------------------------------------------
FixedStop(sl) == [NoConfig EXCEPT !["initial_sl_pct"] = sl]

LockThenTrail(trigger, first, tt, tm) ==
    [NoConfig EXCEPT !["lock_trigger_pct"] = trigger,
                     !["first_lock_pct"] = first,
                     !["trail_trigger_pct"] = tt,
                     !["trail_move_pct"] = tm]

TrailingStop(trigger, move) ==
    [NoConfig EXCEPT !["sl_trail_trigger_pct"] = trigger,
                     !["sl_trail_move_pct"] = move]

Progressive(lock, step, threshold) ==
    [NoConfig EXCEPT !["lock_profit_pct"] = lock,
                     !["profit_lock_step"] = step,
                     !["profit_step_threshold"] = threshold]

SimpleLock(lock) == [NoConfig EXCEPT !["lock_profit_pct"] = lock]

AutoClose(pct, lock) ==
    [NoConfig EXCEPT !["auto_close_profit_pct"] = pct,
                     !["lock_profit_pct"] = lock]

\* strategy_defaults as run() builds them, with every risk value set
StrategyDefaults ==
    [NoConfig EXCEPT !["initial_sl_pct"] = R(10),
                     !["lock_profit_pct"] = R(1),
                     !["auto_close_profit_pct"] = R(1)]

\* a leg that sets the parameters of all three profit modes
AllModes ==
    [LockThenTrail(R(4), R(2), R(2), R(1)) EXCEPT
        !["lock_profit_pct"] = R(1), !["profit_lock_step"] = R(1),
        !["profit_step_threshold"] = R(1)]

Schedule(entry_time, exit_time, grid, fills, trace) ==
    [ entry_time |-> entry_time, exit_time |-> exit_time, end_time |-> 3,
      highest_high |-> R(100), lowest_low |-> R(90),
      breakout_diff_threshold |-> R(2), breakout_diff_delay_seconds |-> 1,
      grid |-> grid, fills |-> fills, trace |-> trace ]

Spots == {None, R(89), R(90), R(95), R(100), R(101), R(104)}

Feed(client) ==
    [ ws_client |-> client, connected |-> client, registered |-> FALSE,
      last |-> None ]

\* ------------------------------------------------------------------------
\* Specification of the confirmation phase alone: two legs polling the
\* same instrument, each with its own parameters.
\* ------------------------------------------------------------------------
WtParams ==
    <<WtIdle(R(3), 2, TRUE, R(2)), WtIdle(R(3), 1, FALSE, None)>>

InitWT ==
    /\ now = 0
    /\ mkt \in {R(100)}
    /\ wt = [l \in WLegs |-> WtParams[l]]
    /\ sched = Schedule(0, NoTime, {}, {}, FALSE)
    /\ config = NoConfig
    /\ defaults = NoConfig
    /\ leg = [LegIdle(NoConfig, NoConfig) EXCEPT !.entry_direction = "CE"]
    /\ pc = [t \in Threads |-> IF t = "leg" THEN "confirming" ELSE "ws_idle"]
    /\ loc = [t \in Threads |-> LocIdle]
    /\ state_lock = ""
    /\ broker = BrokerIdle
    /\ db = DbIdle
    /\ feed = Feed(FALSE)
    /\ hist = <<>>

NextWT ==
    \/ Tick
    \/ MarketMove
    \/ \E l \in WLegs : WtStart(l)
    \/ \E l \in WLegs : WtIterate(l)

SpecWT ==
    /\ InitWT
    /\ [][NextWT]_vars
    /\ \A l \in WLegs : WF_vars(WtIterate(l))

\* ------------------------------------------------------------------------
\* Specification of one leg from thread start to thread end, with the
\* stream callback thread running beside the monitor loop
\* ------------------------------------------------------------------------
LegConfigs ==
    { FixedStop(R(7)),
      LockThenTrail(R(4), R(2), R(2), R(1)),
      TrailingStop(R(4), R(1)) }

LegGrid == {R(93), R(104), R(106)}

Init ==
    /\ now = 0
    /\ mkt = R(100)
    /\ wt = [l \in WLegs |-> WtIdle(R(3), 0, FALSE, None)]
    /\ sched \in { Schedule(2, x, LegGrid, {None, R(100)}, FALSE) : x \in {NoTime, 3} }
    /\ config \in LegConfigs
    /\ defaults = NoConfig
    /\ leg = LegIdle(config, defaults)
    /\ pc = [t \in Threads |-> IF t = "leg" THEN "wait_entry" ELSE "ws_idle"]
    /\ loc = [t \in Threads |-> LocIdle]
    /\ state_lock = ""
    /\ broker = BrokerIdle
    /\ db = DbIdle
    /\ feed \in { Feed(c) : c \in BOOLEAN }
    /\ hist = <<>>

Quotes == sched.grid \cup {None}

Next ==
    \/ Tick
    \/ WaitForTime
    \/ RunLegThreadChecks
    \/ \E spot \in Spots : CheckBreakoutCondition(spot)
    \/ WaitForDistanceStabilization
    \/ DelayCompleted
    \/ \E ok \in BOOLEAN : CalculateStrike(ok)
    \/ \E q \in WtPrices \cup {None} : ConfirmationStart(q)
    \/ \E q \in WtPrices \cup {None} : ConfirmationPoll(q)
    \/ PreEntryCheck
    \/ \E ltp \in {None, R(100)}, order_ok \in BOOLEAN :
          EnterLegPosition(ltp, order_ok)
    \/ \E fill \in sched.fills : EnterReconcileFill(fill)
    \/ EnterComputeStop
    \/ EnterMarkActive
    \/ \E sl_ok \in BOOLEAN : EnterPlaceSlOrder(sl_ok)
    \/ \E ok \in BOOLEAN : RecordLegEntry(ok)
    \/ RegisterCallback
    \/ \E q \in Quotes, stale \in BOOLEAN : MonitorIterate(q, stale)
    \/ MonitorExitTime
    \/ \E p \in sched.grid : WsReceive(p)
    \/ BrokerSlFill
    \/ \E t \in Threads : HandlePriceUpdate(t)
    \/ \E t \in Threads, failed \in BOOLEAN : CheckSlOrderStatus(t, failed)
    \/ \E t \in Threads : BrokerCloseAcquire(t)
    \/ \E t \in Threads : BrokerCloseMark(t)
    \/ \E t \in Threads : BrokerCloseRecord(t)
    \/ \E t \in Threads : ManageTrailingSl(t)
    \/ \E t \in Threads, ok \in BOOLEAN : ApplyTrailingSl(t, ok)
    \/ \E t \in Threads, ok \in BOOLEAN : ManageProfit(t, ok)
    \/ \E t \in Threads, ok \in BOOLEAN : ApplyProfitTrail(t, ok)
    \/ \E t \in Threads : ExitAcquire(t)
    \/ \E t \in Threads : ExitCheckAndMark(t)
    \/ \E t \in Threads, o \in CancelOutcomes : ExitCancelSl(t, o)
    \/ \E t \in Threads, ok \in BOOLEAN, v \in BOOLEAN : ExitPlaceOrder(t, ok, v)
    \/ \E t \in Threads : ExitFinish(t)

Spec == Init /\ [][Next]_vars

\* ------------------------------------------------------------------------
\* Specification of the risk management of an entered leg driven by the
\* monitor loop alone (no stream client), over configurations each paired
\* with the quotes it is fed
\* ------------------------------------------------------------------------
RiskCases ==
    { [ cfg |-> FixedStop(R(7)), dfl |-> NoConfig,
        grid |-> {R(93), <<1861, 20>>, R(186), R(187)} ],
      [ cfg |-> NoConfig, dfl |-> FixedStop(R(10)),
        grid |-> {R(90), R(91), R(180), R(181)} ],
      [ cfg |-> LockThenTrail(R(4), R(2), R(2), R(1)), dfl |-> NoConfig,
        grid |-> {R(100), R(104), R(105), R(106), R(108)} ],
      [ cfg |-> LockThenTrail(R(2), <<19, 10>>, <<1, 4>>, R(1)), dfl |-> NoConfig,
        grid |-> {R(102), <<409, 4>>, R(103)} ],
      [ cfg |-> Progressive(R(4), R(1), R(2)), dfl |-> NoConfig,
        grid |-> {R(100), R(103), R(104), R(106)} ],
      [ cfg |-> Progressive(R(2), R(4), R(1)), dfl |-> NoConfig,
        grid |-> {R(103), R(104)} ],
      [ cfg |-> SimpleLock(R(6)), dfl |-> NoConfig,
        grid |-> {R(100), R(105), R(106)} ],
      [ cfg |-> TrailingStop(R(2), R(1)), dfl |-> NoConfig,
        grid |-> {R(95), R(100), R(102), R(103), R(104)} ],
      [ cfg |-> AutoClose(R(5), R(8)), dfl |-> NoConfig,
        grid |-> {R(100), R(105), R(108)} ],
      [ cfg |-> [AutoClose(R(5), R(8)) EXCEPT
                   !["sl_trail_trigger_pct"] = R(2),
                   !["sl_trail_move_pct"] = R(1)],
        dfl |-> NoConfig, grid |-> {R(101), R(105)} ],
      [ cfg |-> NoConfig, dfl |-> AutoClose(R(1), R(1)),
        grid |-> {R(101), R(102)} ],
      [ cfg |-> AllModes, dfl |-> NoConfig, grid |-> {R(101), R(104), R(106)} ],
      [ cfg |-> [Progressive(R(4), R(1), R(2)) EXCEPT
                   !["first_lock_pct"] = R(1)],
        dfl |-> NoConfig, grid |-> {R(103), R(106)} ],
      [ cfg |-> [NoConfig EXCEPT !["initial_sl_pct"] = None,
                                 !["lock_profit_pct"] = None,
                                 !["auto_close_profit_pct"] = NullString],
        dfl |-> StrategyDefaults, grid |-> {R(92), R(101), R(102)} ],
      [ cfg |-> FixedStop(NullString),
        dfl |-> StrategyDefaults, grid |-> {R(101)} ] }

InitRisk ==
    /\ now = 0
    /\ mkt = R(100)
    /\ wt = [l \in WLegs |-> WtReturned(WtParams[2], "success")]
    /\ \E c \in RiskCases :
         /\ sched = Schedule(0, NoTime, c.grid, {None, R(0), R(100), R(200)}, TRUE)
         /\ config = c.cfg
         /\ defaults = c.dfl
         /\ leg = [LegIdle(c.cfg, c.dfl) EXCEPT !.symbol = TRUE,
                                                !.entry_direction = "CE"]
    /\ pc = [t \in Threads |-> IF t = "leg" THEN "enter" ELSE "ws_idle"]
    /\ loc = [t \in Threads |-> LocIdle]
    /\ state_lock = ""
    /\ broker = BrokerIdle
    /\ db = DbIdle
    /\ feed = Feed(FALSE)
    /\ hist = <<>>

NextRisk ==
    \/ \E order_ok \in BOOLEAN : EnterLegPosition(R(100), order_ok)
    \/ \E fill \in sched.fills : EnterReconcileFill(fill)
    \/ EnterComputeStop
    \/ EnterMarkActive
    \/ \E sl_ok \in BOOLEAN : EnterPlaceSlOrder(sl_ok)
    \/ RecordLegEntry(TRUE)
    \/ RegisterCallback
    \/ \E q \in Quotes : MonitorIterate(q, FALSE)
    \/ MonitorExitTime
    \/ BrokerSlFill
    \/ HandlePriceUpdate("leg")
    \/ \E failed \in BOOLEAN : CheckSlOrderStatus("leg", failed)
    \/ BrokerCloseAcquire("leg")
    \/ BrokerCloseMark("leg")
    \/ BrokerCloseRecord("leg")
    \/ ManageTrailingSl("leg")
    \/ \E ok \in BOOLEAN : ApplyTrailingSl("leg", ok)
    \/ \E ok \in BOOLEAN : ManageProfit("leg", ok)
    \/ \E ok \in BOOLEAN : ApplyProfitTrail("leg", ok)
    \/ ExitAcquire("leg")
    \/ ExitCheckAndMark("leg")
    \/ \E o \in CancelOutcomes : ExitCancelSl("leg", o)
    \/ \E ok \in BOOLEAN : ExitPlaceOrder("leg", ok, TRUE)
    \/ ExitFinish("leg")

SpecRisk == InitRisk /\ [][NextRisk]_vars

\* ------------------------------------------------------------------------
\* Specification of the monitor loop of an entered leg with a fixed stop:
\* price acquisition from the stream cache or through get_quote, beside the
\* stream callback thread, with prices above the stop
\* ------------------------------------------------------------------------
FeedQuoteResponses == {"data_dict", "error"}

FeedGrid == {R(100), R(103)}

InitFeed ==
    /\ now = 0
    /\ mkt = R(103)
    /\ wt = [l \in WLegs |-> WtReturned(WtParams[2], "success")]
    /\ sched = Schedule(0, NoTime, FeedGrid, {}, FALSE)
    /\ config = FixedStop(R(7))
    /\ defaults = NoConfig
    /\ leg = [LegIdle(config, defaults) EXCEPT
                !.symbol = TRUE, !.entry_direction = "CE",
                !.entry_price = R(100), !.entry_order_id = TRUE,
                !.sl_order_id = TRUE, !.current_sl = R(93),
                !.highest_price = R(100), !.is_active = TRUE]
    /\ pc = [t \in Threads |-> IF t = "leg" THEN "mon_loop" ELSE "ws_idle"]
    /\ loc = [t \in Threads |-> LocIdle]
    /\ state_lock = ""
    /\ broker = [BrokerIdle EXCEPT !.entry_orders = 1, !.sl_orders = 1,
                                   !.sl_status = "pending",
                                   !.sl_stop_price = R(93),
                                   !.position = TRUE]
    /\ db = [DbIdle EXCEPT !.entries = 1]
    /\ feed \in {Feed(FALSE), [Feed(TRUE) EXCEPT !.registered = TRUE]}
    /\ hist = <<>>

NextFeed ==
    \/ \E p \in sched.grid : WsReceive(p)
    \/ FeedDrop
    \/ MonitorAcquire
    \/ GetQuoteStream("leg")
    \/ \E r \in FeedQuoteResponses : GetQuoteAttempt("leg", r)
    \/ MonitorApplyQuote
    \/ \E elapsed \in {0, 1} : MonitorSleep(elapsed)
    \/ \E t \in Threads : HandlePriceUpdate(t)
    \/ \E t \in Threads : ManageTrailingSl(t)
    \/ \E t \in Threads : ManageProfit(t, TRUE)

SpecFeed == InitFeed /\ [][NextFeed]_vars

\* ------------------------------------------------------------------------
\* Specification of one call of get_quote or of get_underlying_price, for
\* every state of the stream client and every run of broker answers
\* ------------------------------------------------------------------------
FeedStates ==
    { Feed(FALSE), Feed(TRUE), [Feed(TRUE) EXCEPT !.last = R(101)],
      [Feed(TRUE) EXCEPT !.connected = FALSE, !.last = R(101)] }

InitQuote ==
    /\ now = 0
    /\ mkt = R(100)
    /\ wt = [l \in WLegs |-> WtParams[l]]
    /\ sched = Schedule(0, NoTime, {}, {}, FALSE)
    /\ config = NoConfig
    /\ defaults = NoConfig
    /\ leg = LegIdle(NoConfig, NoConfig)
    /\ pc \in { [t \in Threads |-> IF t = "leg" THEN p ELSE "ws_idle"] :
                  p \in {"q_ws", "u_ws"} }
    /\ loc = [t \in Threads |->
                IF t = "leg" THEN [LocIdle EXCEPT !.after = "q_done"]
                ELSE LocIdle]
    /\ state_lock = ""
    /\ broker = BrokerIdle
    /\ db = DbIdle
    /\ feed \in FeedStates
    /\ hist = <<>>

NextQuote ==
    \/ GetQuoteStream("leg")
    \/ \E r \in Responses : GetQuoteAttempt("leg", r)
    \/ GetUnderlyingStream("leg")
    \/ \E r \in Responses : GetUnderlyingAttempt("leg", r)
    \/ GetUnderlyingExcept("leg")

SpecQuote == InitQuote /\ [][NextQuote]_vars

\* ------------------------------------------------------------------------
\* Specification of the OrderManager: a short run of calls of place_order,
\* modify_sl_order and cancel_sl_order, in every mode, against a broker that
\* may or may not hold the position and the stop order
\* ------------------------------------------------------------------------
OrderModes ==
    { [BrokerIdle EXCEPT !.test_mode = tm, !.auto_place_orders = ap,
                         !.place_sl_order_enabled = sl,
                         !.position = pos, !.sl_status = st] :
        tm \in BOOLEAN, ap \in BOOLEAN, sl \in BOOLEAN, pos \in BOOLEAN,
        st \in {"pending", "complete"} }

InitOrder ==
    /\ now = 0
    /\ mkt = R(100)
    /\ wt = [l \in WLegs |-> WtParams[l]]
    /\ sched = Schedule(0, NoTime, {}, {}, FALSE)
    /\ config = NoConfig
    /\ defaults = NoConfig
    /\ leg = LegIdle(NoConfig, NoConfig)
    /\ pc = [t \in Threads |-> IF t = "leg" THEN "om_idle" ELSE "ws_idle"]
    /\ loc = [t \in Threads |-> LocIdle]
    /\ state_lock = ""
    /\ broker \in OrderModes
    /\ db = DbIdle
    /\ feed = Feed(FALSE)
    /\ hist = <<>>

NextOrder ==
    \/ \E a \in {entry_action, exit_action} :
          OrderManagerCall("leg", "po_verify", a, FALSE)
    \/ \E op \in {"sl_modify", "sl_cancel"}, id \in BOOLEAN :
          OrderManagerCall("leg", op, "", id)
    \/ \E book \in BookAnswers : PlaceOrderVerify("leg", book)
    \/ \E resp \in OrderAnswers : PlaceOrderSend("leg", resp)
    \/ \E resp \in OrderAnswers : ModifySlOrderCall("leg", resp)
    \/ \E resp \in OrderAnswers : CancelSlOrderCall("leg", resp)
    \/ BrokerSlFill

SpecOrder == InitOrder /\ [][NextOrder]_vars

\* ------------------------------------------------------------------------
\* Specification of a session: construction of the strategy, run, two leg
\* threads and the join
\* ------------------------------------------------------------------------
InitSession ==
    /\ now = 0
    /\ mkt = R(100)
    /\ wt = [l \in WLegs |-> WtParams[l]]
    /\ sched = Schedule(0, NoTime, {}, {}, FALSE)
    /\ config = NoConfig
    /\ defaults = NoConfig
    /\ leg = [l \in SessionLegs |-> [is_active |-> FALSE, outcome |-> ""]]
    /\ pc = [t \in SessionLegs \cup {"main"} |->
                IF t = "main" THEN "init" ELSE "idle"]
    /\ loc = [t \in {"main"} |-> [expiry |-> "", high_low |-> "",
                                  started |-> {}, joined |-> {}]]
    /\ state_lock = ""
    /\ broker = BrokerIdle
    /\ db = DbIdle
    /\ feed = Feed(FALSE)
    /\ hist = <<>>

NextSession ==
    \/ \E e \in BOOLEAN, h \in BOOLEAN : StrategyInit(e, h)
    \/ \E ok \in BOOLEAN : RunSession(ok)
    \/ \E l \in SessionLegs : StartLegThread(l)
    \/ \E l \in SessionLegs : JoinLegThread(l)
    \/ FinishRun
    \/ \E l \in SessionLegs,
          o \in {"skipped", "thread_error", "entry_failed", "entered"} :
          RunLegThread(l, o)
    \/ \E l \in SessionLegs, o \in {"closed", "thread_error"} :
          MonitorLeg(l, o)

SpecSession == InitSession /\ [][NextSession]_vars

\* ------------------------------------------------------------------------
\* Specification of the stream client shared by two entered legs
\* ------------------------------------------------------------------------
InitStream ==
    /\ now = 0
    /\ mkt = R(100)
    /\ wt = [l \in WLegs |-> WtParams[l]]
    /\ sched = Schedule(0, NoTime, {}, {}, FALSE)
    /\ config = NoConfig
    /\ defaults = NoConfig
    /\ leg = [l \in SessionLegs |-> [is_active |-> TRUE, exiting |-> FALSE]]
    /\ pc = [t \in SessionLegs \cup {"ws"} |->
                IF t = "ws" THEN "ws_idle" ELSE "register"]
    /\ loc = [t \in {"ws"} |-> [symbol |-> ""]]
    /\ state_lock = ""
    /\ broker = BrokerIdle
    /\ db = DbIdle
    /\ feed = [subscription_lock |-> "", price_callbacks |-> {},
               last_prices |-> {}]
    /\ hist = <<>>

NextStream ==
    \/ \E l \in SessionLegs : ReceiveLoop(l)
    \/ \E exit \in BOOLEAN : PriceCallback(exit)
    \/ PriceCallbackExit
    \/ \E l \in SessionLegs : OnPriceUpdate(l)
    \/ \E l \in SessionLegs, exit \in BOOLEAN : MonitorThread(l, exit)
    \/ \E l \in SessionLegs : MonitorThreadExit(l)

SpecStream == InitStream /\ [][NextStream]_vars

\* ------------------------------------------------------------------------
\* Properties of the leg lifecycle and of the exit path
\* ------------------------------------------------------------------------
\* the leg was entered: its entry order was accepted and the leg was marked
\* active, which sets its peak price (lines 997-998)
Entered == leg.entry_order_id /\ IsNum(leg.highest_price)

MonitorLocs ==
    {"mon_register", "mon_loop", "mon_time", "h_guard", "h_status",
     "h_brk_lock", "h_brk_body", "h_brk_record", "m_trail", "m_trail_apply",
     "m_profit", "m_lock_apply", "x_lock", "x_check", "x_cancel", "x_order",
     "x_finish"}

Quiescent == pc["leg"] = "done" /\ pc["ws"] = "ws_idle"

\* C1 (as stated): whatever the interleaving of the monitor loop and the
\* stream callback, a leg never gets more than one exit record, and a leg
\* that was entered and is closed has exactly one once both threads are at
\* rest.
C1_SingleExitRecord ==
    /\ Len(db.exits) <= 1
    /\ (Entered /\ ~leg.is_active /\ Quiescent) => Len(db.exits) = 1

\* C2 (as stated): an entered leg that is no longer active has its exit
\* price and its exit reason populated.
C2_ExitFieldsPopulated ==
    (Entered /\ ~leg.is_active) =>
        (IsNum(leg.exit_price) /\ leg.exit_reason # "")

PositionState ==
    <<leg.current_sl, leg.last_sl_trail_level, leg.profit_exit_target,
      leg.last_trail_level, leg.first_lock_achieved, leg.is_active>>

\* C3 (as stated): while the leg is monitored, a step that writes the stop,
\* the stop-trail level, the exit target, the trail level, the first-lock
\* flag or the active flag is taken with state_lock held.
C3_WritesUnderLock ==
    [][(pc["leg"] \in MonitorLocs /\ PositionState' # PositionState)
          => state_lock # ""]_vars

Phase ==
    IF leg.is_active THEN "ACTIVE"
    ELSE IF pc["leg"] = "done" \/ Entered THEN "CLOSED"
    ELSE IF pc["leg"] = "wait_entry" THEN "WAITING"
    ELSE IF pc["leg"] \in {"exit_check", "breakout", "stabilize", "delaying",
                           "strike"} THEN "BREAKOUT_CHECK"
    ELSE IF pc["leg"] \in {"confirm_start", "confirming"} THEN "CONFIRMING"
    ELSE "ENTERING"

PhaseRank ==
    [ WAITING |-> 0, BREAKOUT_CHECK |-> 1, CONFIRMING |-> 2, ENTERING |-> 3,
      ACTIVE |-> 4, CLOSED |-> 5 ]

C4_State ==
    /\ pc["leg"] \in {"exit_check", "breakout", "stabilize", "delaying",
                      "strike", "confirm_start", "confirming"}
          => now >= sched.entry_time
    /\ pc["leg"] \in {"confirm_start", "confirming", "pre_entry", "enter"}
          => leg.entry_direction \in {"CE", "PE"}
    /\ pc["leg"] \in MonitorLocs => Entered
    /\ pc["ws"] # "ws_idle" => Entered

C4_Step ==
    /\ PhaseRank[Phase'] >= PhaseRank[Phase]
    /\ broker.entry_orders' # broker.entry_orders
          => (wt[1].status = "success" /\ pc["leg"] = "enter")
    /\ (pc["leg"] # "mon_register" /\ pc'["leg"] = "mon_register")
          => leg.is_active
    /\ (Phase = "CLOSED") => ~leg.is_active'

\* C4: a leg moves through WAITING, BREAKOUT_CHECK, CONFIRMING, ENTERING,
\* ACTIVE, CLOSED in that order only, possibly skipping ahead to CLOSED: the
\* breakout check comes no earlier than the entry time, confirmation only
\* with a breakout direction, the entry order only after a successful
\* confirmation, monitoring only after the leg was marked active, and a
\* closed leg is never active again.
C4_PhaseOrder == []C4_State /\ [][C4_Step]_vars

C4_Witness ==
    /\ pc["leg"] = "done" /\ Entered /\ ~leg.is_active
    /\ leg.exit_reason = "TIME_EXIT"
    /\ leg.first_lock_achieved
    /\ db.entries = 1

NothingIssued ==
    /\ ~leg.is_active
    /\ pc["leg"] = "done"
    /\ broker.sl_orders = 0 /\ broker.modifies = 0 /\ broker.cancels = 0
    /\ broker.exit_orders = 0 /\ ~broker.position

\* C5: when no breakout direction was found (spot missing or inside the
\* range), when the confirmation failed or timed out, or when the entry
\* order came back without an id, the leg thread has ended with the leg
\* inactive and no stop order, stop modification, cancel or exit order was
\* issued; in the first two cases no entry order was placed either.
C5_NoPosition ==
    /\ (leg.entry_direction = ""
          /\ pc["leg"] \notin {"wait_entry", "exit_check", "breakout"})
          => (NothingIssued /\ broker.entry_orders = 0)
    /\ wt[1].status \in {"timeout", "no_initial_price"}
          => (NothingIssued /\ broker.entry_orders = 0)
    /\ (broker.entry_orders > 0 /\ ~leg.entry_order_id) => NothingIssued

C5_Witness ==
    /\ loc["leg"].outcome = "entry_failed"
    /\ broker.entry_orders = 1 /\ ~leg.entry_order_id
    /\ Truthy(feed.last)
    /\ now = MaxTime

\* ------------------------------------------------------------------------
\* Properties of the risk management
\* ------------------------------------------------------------------------
\* the monitor loop stands between two price updates
Idle == pc["leg"] \in {"mon_time", "mon_loop", "done"}

\* no trailing stop, no auto-close and no profit lock is configured
FixedStopLeg ==
    \A k \in RiskKeys \ {"initial_sl_pct"} :
        config[k] = Absent /\ defaults[k] = Absent

StopFired == leg.exit_reason \in {"SL_BREACH", "SL_EXECUTED_ON_BROKER"}

\* p <= e * (1 - s / 100), cross-multiplied
AtOrBelowStop(p, e, s) ==
    100 * p[1] * e[2] * s[2] <= e[1] * (100 * s[2] - s[1]) * p[2]

\* x = e * (1 - s / 100), cross-multiplied
IsStopOf(x, e, s) ==
    100 * x[1] * e[2] * s[2] = e[1] * (100 * s[2] - s[1]) * x[2]

\* C6: the stop of an entered leg with a fixed stop is E * (1 - S / 100),
\* and a price handed to the handler closes the leg by the stop if and only
\* if it is <= E * (1 - S / 100); with E = 100 and S = 7 that is 93.
C6_StopRoundTrip ==
    (Entered /\ FixedStopLeg) =>
        /\ IsStopOf(leg.current_sl, leg.entry_price, InitialSlPct(config, defaults))
        /\ (pc["leg"] = "mon_time" /\ Truthy(loc["leg"].price)) =>
              (StopFired <=> AtOrBelowStop(loc["leg"].price, leg.entry_price,
                                           InitialSlPct(config, defaults)))
        /\ (pc["leg"] = "mon_time" /\ Truthy(loc["leg"].price)
              /\ leg.entry_price = R(100) /\ config["initial_sl_pct"] = R(7)) =>
              (StopFired <=> loc["leg"].price[1] <= 93 * loc["leg"].price[2])
        /\ StopFired => ~leg.is_active

C6_Witness ==
    /\ Entered /\ FixedStopLeg
    /\ pc["leg"] = "mon_time"
    /\ leg.entry_price = R(100) /\ config["initial_sl_pct"] = R(7)
    /\ hist = << <<1861, 20>>, R(93) >>
    /\ leg.exit_reason = "SL_BREACH"
    /\ leg.exit_price = R(93)

LockLeg == ProfitMode = "lock_then_trail"

LockTrigger == GetParam("lock_trigger_pct", config["first_lock_pct"], TRUE)

\* some price handed to the handler so far had a profit of at least pct
ProfitReached(pct) ==
    \E i \in 1..Len(hist) : RGe(PnlPct(hist[i]), pct)

\* a / b rounded towards zero, for a >= 0 and b > 0
FloorDiv(a, b) == (a[1] * b[2]) \div (a[2] * b[1])

\* a + m * k, and the smaller of x and y, in cross-multiplied form
Raised(a, m, k) == <<a[1] * m[2] + m[1] * k * a[2], a[2] * m[2]>>

SameNumber(x, y) == IsNum(x) /\ IsNum(y) /\ x[1] * y[2] = y[1] * x[2]

C9_State ==
    (Entered /\ LockLeg) =>
        /\ ~leg.first_lock_achieved => leg.profit_exit_target = None
        /\ Idle => (leg.profit_exit_target # None <=> ProfitReached(LockTrigger))
        /\ (pc["leg"] = "mon_time" /\ leg.is_active
              /\ leg.profit_exit_target # None /\ Truthy(loc["leg"].price))
              => RGt(PnlPct(loc["leg"].price), leg.profit_exit_target)
        /\ leg.exit_reason = "TRAIL_EXIT"
              => RLe(PnlPct(leg.exit_price), leg.profit_exit_target)

C9_Step ==
    (Entered /\ LockLeg) =>
        LET pnl  == loc["leg"].pnl_pct
            tt   == config["trail_trigger_pct"]
            tm   == config["trail_move_pct"]
            gain == <<pnl[1] * leg.last_trail_level[2]
                        - leg.last_trail_level[1] * pnl[2],
                      pnl[2] * leg.last_trail_level[2]>>
            k    == FloorDiv(gain, tt)
            up   == Raised(leg.profit_exit_target, tm, k)
            cap  == <<2 * pnl[1] - pnl[2], 2 * pnl[2]>>
        IN  /\ (leg.profit_exit_target = None /\ leg'.profit_exit_target # None)
                  => /\ leg'.profit_exit_target = config["first_lock_pct"]
                     /\ RGe(pnl, LockTrigger)
            /\ (leg.profit_exit_target # None
                  /\ leg'.profit_exit_target # leg.profit_exit_target)
                  => /\ k >= 1
                     /\ SameNumber(leg'.profit_exit_target,
                                   IF RGt(up, cap) THEN cap ELSE up)
                     /\ RLe(leg'.profit_exit_target, cap)
                     /\ leg'.last_trail_level = pnl
            /\ (pc["leg"] = "m_profit" /\ pc'["leg"] = "mon_time"
                  /\ leg'.profit_exit_target # None)
                  => /\ leg'.profit_exit_target = leg.profit_exit_target
                        \/ leg.profit_exit_target = None
                     /\ RLt(RSub(pnl, leg'.last_trail_level), tt)
                     /\ RGt(pnl, leg'.profit_exit_target)

Scenario == LockThenTrail(R(4), R(2), R(2), R(1))

C9_Scenario ==
    (Entered /\ config = Scenario /\ leg.entry_price = R(100) /\ Idle) =>
        /\ hist = <<R(100)>> => leg.profit_exit_target = None
        /\ hist = <<R(100), R(104)>> => leg.profit_exit_target = R(2)
        /\ hist = <<R(100), R(104), R(106)>> => leg.profit_exit_target = R(3)
        /\ hist = <<R(100), R(104), R(106), R(108)>>
              => (leg.profit_exit_target = R(4) /\ leg.is_active)
        /\ hist = <<R(100), R(104), R(106), R(108), R(105)>>
              => (leg.profit_exit_target = R(4) /\ leg.is_active)
        /\ hist = <<R(100), R(104), R(106), R(108), R(104)>>
              => (leg.profit_exit_target = R(4) /\ ~leg.is_active)

\* C9: in lock-then-trail mode the exit target is unset exactly until a
\* processed price has a profit of at least the lock trigger, is first set
\* to first_lock_pct, and is afterwards rewritten only to
\* min(target + trail_move * floor((profit - last trail level) / trail_trigger),
\* profit - 0.5) when that floor is at least 1; a leg left active by a
\* processed price has a profit above its target, and a TRAIL_EXIT is taken
\* only at a profit <= the target.  With trigger 4, first lock 2, trail
\* trigger 2, trail move 1 and entry 100 the prices 100, 104, 106, 108 give
\* the targets None, 2, 3, 4 with the leg still active, also after 105, and
\* the leg is closed after 104.
C9_LockThenTrail == [](C9_State /\ C9_Scenario) /\ [][C9_Step]_vars

C9_Witness ==
    /\ config = Scenario /\ leg.entry_price = R(100)
    /\ hist = <<R(100), R(104), R(106), R(108), R(104)>>
    /\ leg.exit_reason = "TRAIL_EXIT"
    /\ leg.profit_exit_target = R(4)
    /\ pc["leg"] = "done"

\* the exit target of each profit mode
LockTarget ==
    IF ProfitMode = "lock_then_trail" THEN leg.profit_exit_target
    ELSE IF ProfitMode \in {"progressive", "simple"}
         THEN config["lock_profit_pct"]
    ELSE None

Increasing(h) == \A i \in 1..(Len(h) - 1) : RLt(h[i], h[i + 1])

\* C10 (as stated): along a strictly increasing sequence of processed
\* prices, a target that is set is never replaced by a smaller one.
C10_TargetMonotone ==
    [][(Entered /\ Increasing(hist') /\ LockTarget # None)
          => (LockTarget' # None /\ RGe(LockTarget', LockTarget))]_vars

ProgressiveLeg == ProfitMode = "progressive"

\* lock_profit_pct as the leg was configured, before any escalation
ConfiguredLock ==
    LET c == CHOOSE c \in RiskCases :
                 /\ c.cfg["profit_lock_step"] = config["profit_lock_step"]
                 /\ c.cfg["profit_step_threshold"] =
                        config["profit_step_threshold"]
    IN  c.cfg["lock_profit_pct"]

\* how many thresholds lock + k * threshold, k >= 1, the profit has reached
Crossed(lock, threshold) ==
    Cardinality({ k \in 1..20 :
                    ProfitReached(RAdd(lock, RMul(threshold, R(k)))) })

\* C11 (as stated): between two price updates the target of a progressive
\* leg is lock_profit_pct + profit_lock_step * (number of thresholds
\* lock_profit_pct + k * profit_step_threshold crossed so far), however many
\* a single price crossed; a leg left active by a price has a profit below
\* the target, and a PROFIT_LOCK exit is taken at a profit >= the target.
C11_ProgressiveTarget ==
    (Entered /\ ProgressiveLeg /\ Idle) =>
        /\ SameNumber(config["lock_profit_pct"],
                      Raised(ConfiguredLock, config["profit_lock_step"],
                             Crossed(ConfiguredLock,
                                     config["profit_step_threshold"])))
        /\ (leg.is_active /\ hist # <<>>)
              => RLt(PnlPct(hist[Len(hist)]), config["lock_profit_pct"])
        /\ leg.exit_reason = "PROFIT_LOCK"
              => RGe(PnlPct(leg.exit_price), config["lock_profit_pct"])

\* the whole trigger intervals of profit reached by some price of h
IntervalsGained(h, trigger) ==
    LET S == { FloorDiv(PnlPct(h[i]), trigger) :
                 i \in { j \in 1..Len(h) : RGt(PnlPct(h[j]), R(0)) } } \cup {0}
    IN  CHOOSE m \in S : \A x \in S : x <= m

\* C12 (as stated): on every price update of a leg with a trailing stop the
\* number of sl_trail_move_pct raises applied is the number of whole
\* sl_trail_trigger_pct intervals of profit newly gained by the peak
\* profit, so that the raises applied so far always add up to
\* floor(peak profit / trigger), however the path was sampled.
C12_TrailingRaises ==
    [][(pc["leg"] = "m_trail" /\ pc'["leg"] # "m_trail"
          /\ Truthy(GetParam("sl_trail_trigger_pct", None, TRUE))
          /\ Truthy(GetParam("sl_trail_move_pct", None, TRUE)))
        => LET trigger == GetParam("sl_trail_trigger_pct", None, TRUE)
               due == IntervalsGained(hist, trigger)
                        - IntervalsGained(SubSeq(hist, 1, Len(hist) - 1),
                                          trigger)
           IN  IF due = 0 THEN pc'["leg"] # "m_trail_apply"
               ELSE pc'["leg"] = "m_trail_apply" /\ loc'["leg"].n = due]_vars

\* the auto-close threshold of the leg's own configuration
LegAutoClose == config["auto_close_profit_pct"]

AutoCloseDue ==
    /\ IsNum(LegAutoClose)
    /\ IsNum(loc["leg"].pnl_pct)
    /\ RGe(loc["leg"].pnl_pct, LegAutoClose)

C13_Step ==
    /\ (pc["leg"] = "m_trail" /\ pc'["leg"] # "m_trail" /\ AutoCloseDue)
          => (pc'["leg"] = "m_profit" /\ leg' = leg)
    /\ (pc["leg"] = "m_profit" /\ pc'["leg"] # "m_profit" /\ AutoCloseDue)
          => /\ pc'["leg"] = "x_lock"
             /\ loc'["leg"].reason = "AUTO_CLOSE"
             /\ leg' = leg /\ config' = config
             /\ broker'.modifies = broker.modifies
    /\ (loc["leg"].reason # "AUTO_CLOSE" /\ loc'["leg"].reason = "AUTO_CLOSE")
          => AutoCloseDue

\* C13 (as stated): when a price update of a leg whose own configuration
\* sets auto_close_profit_pct has a profit >= that threshold, the risk
\* management goes straight to the exit with reason AUTO_CLOSE: the stop is
\* not trailed, the stop order not modified, no lock set or escalated; and
\* an AUTO_CLOSE exit is taken only on such an update, never from a threshold
\* of the strategy defaults.
C13_AutoClose == [][C13_Step]_vars

\* the parameter is set to a number on the leg itself
Present(k) == IsNum(config[k])

\* the mode by first match in the order lock-then-trail, progressive, simple
SelectedMode ==
    IF Present("first_lock_pct") /\ Present("trail_trigger_pct")
          /\ Present("trail_move_pct")
    THEN "lock_then_trail"
    ELSE IF Present("lock_profit_pct") /\ Present("profit_lock_step")
               /\ Present("profit_step_threshold")
    THEN "progressive"
    ELSE IF Present("lock_profit_pct") THEN "simple"
    ELSE "none"

C14_Step ==
    (pc["leg"] = "m_profit" /\ pc'["leg"] # "m_profit" /\ ~AutoCloseDue) =>
        LET pnl_pct == loc["leg"].pnl_pct
            exits(r) == pc'["leg"] = "x_lock" /\ loc'["leg"].reason = r
        IN  /\ SelectedMode = "lock_then_trail" =>
                  /\ config' = config
                  /\ leg'.profit_level_for_lock_increase
                        = leg.profit_level_for_lock_increase
                  /\ ~exits("PROFIT_LOCK")
                  /\ RGe(pnl_pct, LockTrigger) => leg'.first_lock_achieved
            /\ SelectedMode = "progressive" =>
                  /\ [leg' EXCEPT !.profit_level_for_lock_increase =
                                      leg.profit_level_for_lock_increase] = leg
                  /\ IsNum(leg'.profit_level_for_lock_increase)
                  /\ ~exits("TRAIL_EXIT") /\ pc'["leg"] # "m_lock_apply"
            /\ SelectedMode = "simple" =>
                  /\ leg' = leg /\ config' = config
                  /\ exits("PROFIT_LOCK") <=> RGe(pnl_pct, config["lock_profit_pct"])
                  /\ ~exits("PROFIT_LOCK") => pc'["leg"] = "mon_time"
            /\ SelectedMode = "none" =>
                  /\ leg' = leg /\ config' = config
                  /\ pc'["leg"] = "mon_time"

\* C14: on every price update that reaches the profit management exactly
\* one mode runs, chosen by first match in the order lock-then-trail
\* (first_lock_pct, trail_trigger_pct, trail_move_pct set), progressive
\* (lock_profit_pct, profit_lock_step, profit_step_threshold set), simple
\* (lock_profit_pct set): the step writes only the state of that mode and
\* takes only that mode's exit, the exit target is trailed only in
\* lock-then-trail mode, and with lock_profit_pct alone the leg exits with
\* PROFIT_LOCK if and only if the profit is >= lock_profit_pct.
C14_ModeExclusive ==
    /\ [](pc["leg"] = "m_lock_apply" => SelectedMode = "lock_then_trail")
    /\ [][C14_Step]_vars

C14_Witness ==
    /\ config = AllModes
    /\ leg.first_lock_achieved
    /\ leg.exit_reason = "TRAIL_EXIT"
    /\ leg.profit_level_for_lock_increase = Absent
    /\ hist = <<R(104), R(101)>>
    /\ pc["leg"] = "done"

\* C15 (as stated): a risk parameter that the leg sets to null or 'null'
\* resolves to None, whatever the strategy default, a mode or auto-close
\* parameter resolves to the leg's own number or to None, so that the mode
\* is selected from the leg's own parameters alone, and the initial stop
\* percentage of a leg that disables it is the last-resort 7 of a leg
\* configured nowhere, never the strategy default and always a number.
C15_CascadePrevention ==
    /\ \A k \in RiskKeys :
          /\ Disabled(config[k]) =>
                (GetParam(k, None, TRUE) = None /\ GetParam(k, None, FALSE) = None)
          /\ GetParam(k, None, FALSE) = (IF Present(k) THEN config[k] ELSE None)
          /\ (config[k] # Absent /\ IsNum(defaults[k]))
                => GetParam(k, None, TRUE) # defaults[k]
    /\ ProfitMode = SelectedMode
    /\ IsNum(leg.initial_sl_pct)
    /\ Disabled(config["initial_sl_pct"]) => leg.initial_sl_pct = R(7)

\* ------------------------------------------------------------------------
\* Properties of the breakout check and of the entry
\* ------------------------------------------------------------------------
\* what the breakout check is to answer for the spot p
BreakoutOf(p) ==
    IF IsNum(p) /\ p[1] * sched.highest_high[2] > sched.highest_high[1] * p[2]
    THEN <<"CE", RSub(p, sched.highest_high)>>
    ELSE IF IsNum(p) /\ p[1] * sched.lowest_low[2] < sched.lowest_low[1] * p[2]
    THEN <<"PE", RSub(sched.lowest_low, p)>>
    ELSE <<"", R(0)>>

C16_Step ==
    /\ sched'.highest_high = sched.highest_high
    /\ sched'.lowest_low = sched.lowest_low
    /\ (pc["leg"] = "breakout" /\ pc'["leg"] # "breakout") =>
          \/ /\ pc'["leg"] = "stabilize"
             /\ \E p \in Spots :
                   /\ BreakoutOf(p)[1] # ""
                   /\ <<leg'.entry_direction, loc'["leg"].distance>>
                         = BreakoutOf(p)
          \/ /\ pc'["leg"] = "done"
             /\ loc'["leg"].outcome = "no_breakout"
             /\ leg' = leg /\ broker' = broker
    /\ leg'.entry_direction # leg.entry_direction => pc["leg"] = "breakout"

\* C16: for the spot p and the levels H and L fetched at startup, which
\* never change, the breakout check answers CE with distance p - H iff
\* p > H, PE with distance L - p iff p < L, and no breakout otherwise, also
\* for p = H, p = L and a missing spot; the leg takes that direction and
\* distance or ends with no entry.  H = 100, L = 90, p = 101 gives CE and
\* distance 1.
C16_Breakout ==
    /\ [](\A p \in Spots : CheckBreakout(p) = BreakoutOf(p))
    /\ []((sched.highest_high = R(100) /\ sched.lowest_low = R(90))
            => CheckBreakout(R(101)) = <<"CE", R(1)>>)
    /\ [][C16_Step]_vars

C16_Witness ==
    /\ sched.highest_high = R(100) /\ sched.lowest_low = R(90)
    /\ pc["leg"] = "stabilize"
    /\ leg.entry_direction = "CE"
    /\ loc["leg"].distance = R(1)
    /\ now = sched.entry_time

C17_Step ==
    /\ broker'.entry_orders # broker.entry_orders
          => (pc["leg"] = "enter" /\ leg.current_sl = None /\ ~leg.is_active)
    /\ (pc["leg"] = "enter_fill" /\ pc'["leg"] # "enter_fill")
          => LET f == loc'["leg"].fill
                 ltp_price == loc["leg"].price
             IN  /\ broker.entry_orders = 1 /\ leg.entry_order_id
                 /\ leg'.entry_price =
                       (IF IsNum(f) /\ f[1] > 0 THEN f ELSE ltp_price)
                 /\ leg'.current_sl = None /\ ~leg'.is_active
    /\ leg'.entry_price # leg.entry_price
          => pc["leg"] \in {"enter", "enter_fill"}
    /\ (leg.current_sl = None /\ leg'.current_sl # None)
          => /\ pc["leg"] = "enter_stop"
             /\ IsStopOf(leg'.current_sl, leg.entry_price, leg.initial_sl_pct)
             /\ ~leg'.is_active /\ broker.sl_orders = 0
    /\ (~leg.is_active /\ leg'.is_active)
          => /\ pc["leg"] = "enter_active"
             /\ IsNum(leg.current_sl) /\ broker'.sl_orders = 0
    /\ broker'.sl_orders # broker.sl_orders
          => /\ pc["leg"] = "enter_sl_order"
             /\ leg.is_active
             /\ broker'.sl_stop_price = leg.current_sl
             /\ IsStopOf(broker'.sl_stop_price, leg.entry_price,
                         leg.initial_sl_pct)

StopReasons == {"SL_BREACH", "SL_EXECUTED_ON_BROKER"}

\* the handler at p with locals l works on a tick that breached the stop
StopPath(p, l) ==
    \/ p \in {"h_status", "h_brk_lock", "h_brk_body", "h_brk_record"}
    \/ /\ p \in {"x_lock", "x_check", "x_cancel", "x_order", "x_finish"}
       /\ l.reason = "SL_BREACH"

\* the handler at p is inside _manage_position_unified
RiskPath(p) == p \in {"m_trail", "m_trail_apply", "m_profit", "m_lock_apply"}

\* what the risk manager writes
RiskFields ==
    <<leg.current_sl, leg.profit_exit_target, leg.first_lock_achieved,
      leg.last_trail_level, leg.last_sl_trail_level,
      leg.profit_level_for_lock_increase, config, broker.modifies>>

C18_Step ==
    LET p  == pc["leg"]
        l  == loc["leg"]
        p2 == pc'["leg"]
        l2 == loc'["leg"]
    IN  /\ (/\ p = "h_guard" /\ p2 # "h_guard"
            /\ leg.is_active /\ ~leg.exiting /\ Truthy(l.price))
              => IF RLe(l.price, leg.current_sl)
                 THEN StopPath(p2, l2) /\ l2.price = l.price
                 ELSE p2 = "m_trail"
        /\ (RiskPath(p2) /\ ~RiskPath(p))
              => p = "h_guard" /\ RGt(l.price, leg.current_sl)
        /\ StopPath(p, l) => RiskFields' = RiskFields
        /\ (StopPath(p, l) /\ p2 # p)
              => \/ StopPath(p2, l2)
                 \/ /\ p2 = "mon_time"
                    /\ ~leg'.is_active
                    /\ leg'.exit_reason \in StopReasons
                    /\ leg'.exit_price = l.price
        /\ (StopPath(p, l) /\ db'.exits # db.exits)
              => \E r \in StopReasons : db'.exits = Append(db.exits, r)

\* C18: a tick handed to _handle_price_update for an active leg with
\* price <= current_sl closes the leg within that call with SL_BREACH or
\* SL_EXECUTED_ON_BROKER, and no stop trail, lock, escalation, auto-close or
\* profit-lock exit is applied on it; _manage_position_unified is entered
\* only with a price above the stop.
C18_HardStopFirst == [][C18_Step]_vars

C18_Witness ==
    /\ pc["leg"] = "mon_time"
    /\ ~leg.is_active
    /\ leg.exit_reason = "SL_BREACH"
    /\ leg.first_lock_achieved
    /\ hist = <<R(104), R(101)>>
    /\ RLe(R(101), leg.current_sl)
    /\ db.exits = <<"SL_BREACH">>

\* the handler at p is closing the leg after the broker executed its stop
BrokerClosePath(p) == p \in {"h_brk_lock", "h_brk_body", "h_brk_record"}

\* the broker holds the leg's stop order as executed
StopFilled == leg.sl_order_id /\ broker.sl_status = "complete"

\* C33: on a breached stop the leg is closed as SL_EXECUTED_ON_BROKER only
\* when it has a stop order that the broker holds as executed, and always
\* when the status query returns that; this close issues no cancel and no
\* closing order; without a stop order id, with another status or with a
\* failed query the exit with SL_BREACH runs.
C33_Step ==
    LET p  == pc["leg"]
        p2 == pc'["leg"]
    IN  /\ (p = "h_status" /\ p2 # p) =>
              /\ \/ BrokerClosePath(p2)
                 \/ p2 = "x_lock" /\ loc'["leg"].reason = "SL_BREACH"
              /\ BrokerClosePath(p2) => StopFilled
              /\ ~StopFilled => p2 = "x_lock"
        /\ (CheckSlOrderStatus("leg", FALSE) /\ StopFilled)
              => BrokerClosePath(p2)
        /\ (BrokerClosePath(p) /\ p2 # p) =>
              /\ BrokerClosePath(p2) \/ p2 = "mon_time"
              /\ broker' = broker
              /\ p2 = "mon_time" =>
                    /\ ~leg'.is_active
                    /\ leg'.exit_reason = "SL_EXECUTED_ON_BROKER"
                    /\ db'.exits = Append(db.exits, "SL_EXECUTED_ON_BROKER")

C33_BrokerExecutedStop ==
    /\ [](leg.exit_reason = "SL_EXECUTED_ON_BROKER"
            => broker.cancels = 0 /\ broker.exit_orders = 0)
    /\ [][C33_Step]_vars

\* a leg closed by its executed stop order, nothing cancelled or sold
C33_Witness ==
    /\ pc["leg"] = "done" /\ ~leg.is_active
    /\ leg.exit_reason = "SL_EXECUTED_ON_BROKER"
    /\ broker.sl_status = "complete" /\ ~broker.position
    /\ broker.cancels = 0 /\ broker.exit_orders = 0
    /\ db.exits = <<"SL_EXECUTED_ON_BROKER">>

\* ------------------------------------------------------------------------
\* Properties of the price source
\* ------------------------------------------------------------------------
StreamUsable == feed.ws_client /\ feed.connected

\* the monitor loop hands a price to _handle_price_update
Processing == pc["leg"] = "h_guard"

C19_Step ==
    (/\ pc["leg"] = "mon_loop" /\ pc'["leg"] # "mon_loop"
     /\ leg.is_active /\ StreamUsable
     /\ Truthy(feed.last) /\ Truthy(leg.last_price)
     /\ feed.last # leg.last_price)
       => /\ leg'.stale_price_count = 0
          /\ leg'.last_price = feed.last
          /\ pc'["leg"] = "h_guard"
          /\ loc'["leg"].source = "stream"
          /\ loc'["leg"].price = feed.last

\* C19: while the stream cache has no entry for the leg, or its price has
\* been unchanged for StaleFallbackCount seconds, the price the monitor
\* loop processes comes from a quote call answered by the broker and not
\* from the stream cache; a changed stream price sets the staleness counter
\* to zero and is processed from the cache.
C19_PriceSourceFallback ==
    /\ []((/\ Processing /\ StreamUsable
           /\ \/ ~Truthy(feed.last)
              \/ leg.stale_price_count >= StaleFallbackCount)
            => loc["leg"].source = "rest")
    /\ [][C19_Step]_vars

\* ------------------------------------------------------------------------
\* Properties of the quote functions
\* ------------------------------------------------------------------------
Returned == pc["leg"] = "q_done"

C20_Step ==
    /\ loc'["leg"].responses # loc["leg"].responses
          => /\ pc["leg"] \in {"q_rest", "u_rest"}
             /\ \E r \in Responses :
                   loc'["leg"].responses = Append(loc["leg"].responses, r)
    /\ (pc["leg"] \in {"q_ws", "u_ws"} /\ pc'["leg"] = "q_done")
          => /\ loc'["leg"].quote = feed.last /\ Truthy(feed.last)
             /\ loc'["leg"].responses = <<>>

\* C20: one call of get_quote or get_underlying_price calls client.quotes at
\* most MaxRetries = 3 times, ends by returning a price or None whatever the
\* broker answered or raised, never with an exception reaching the caller,
\* and returns None after three transient errors.
C20_QuoteFetch ==
    /\ [](/\ Len(loc["leg"].responses) <= 3
          /\ pc["leg"] # "q_raised"
          /\ Returned =>
               /\ loc["leg"].quote = None \/ IsNum(loc["leg"].quote)
               /\ loc["leg"].responses =
                     <<"error_transient", "error_transient", "error_transient">>
                     => loc["leg"].quote = None)
    /\ [][C20_Step]_vars

C20_Witness ==
    /\ Returned
    /\ loc["leg"].responses =
          <<"error_transient", "error_transient", "error_transient">>
    /\ loc["leg"].quote = None
    /\ loc["leg"].source = "rest"

\* failures the claim counts as transient: the transient error strings, and
\* an exception of unknown kind (it may be a timeout)
TransientFailures == {"error_transient", "raises"}

\* failures that are not transient: another error message, a malformed or
\* non-dict response, a KeyError
NonTransientFailures ==
    {"error", "unknown", "not_dict", "data_list_empty", "key_error"}

\* C21: client.quotes is called again only after a transient failure; after
\* a failure that is not transient the function returns None and that call
\* was its only one.
C21_RetryOnlyTransient ==
    LET r == loc["leg"].responses
    IN  /\ \A i \in 1..(Len(r) - 1) : r[i] \in TransientFailures
        /\ (Returned /\ Len(r) > 0 /\ r[Len(r)] \in NonTransientFailures)
              => (loc["leg"].quote = None /\ Len(r) = 1)

\* ------------------------------------------------------------------------
\* Properties of the closing order
\* ------------------------------------------------------------------------
\* thread t completes an exit whose closing order gave no order id
ExitWithoutOrder(t) ==
    /\ pc[t] = "x_finish" /\ pc'[t] # "x_finish"
    /\ loc[t].result = "None"

\* C23 (as stated): when the closing order of a leg gives no order id, the
\* same exit attempt leaves the leg closed with the price handed to the exit
\* as exit price, with its exit reason set and its exit record (reason and
\* P&L) written, and no second closing order is attempted for the leg.
C23_Step ==
    /\ \A t \in Threads : ExitWithoutOrder(t) =>
          /\ ~leg'.is_active
          /\ IsNum(leg'.exit_price) /\ leg'.exit_price = loc[t].xprice
          /\ leg'.exit_reason = loc[t].reason
          /\ db'.exits = Append(db.exits, loc[t].reason)
    /\ leg.exiting =>
          /\ leg'.exiting
          /\ \A t \in Threads : pc'[t] = "x_order" => pc[t] \in {"x_cancel", "x_order"}
          /\ \A t \in Threads : pc'[t] = "x_cancel" => pc[t] = "x_cancel"

C23_ClosedWithoutOrder == [][C23_Step]_vars

\* ------------------------------------------------------------------------
\* Properties of the protective stop order
\* ------------------------------------------------------------------------
\* C25: a stop order is placed only by the entry and only once; a change of
\* the stop at the broker is a modification of the order the leg refers to
\* and places no order; a completed exit leaves the leg without a stop order
\* id; so the leg never has more than one stop order at the broker.
C25_Step ==
    /\ broker'.sl_orders # broker.sl_orders =>
          /\ pc["leg"] = "enter_sl_order"
          /\ broker.sl_orders = 0 /\ broker'.sl_orders = 1
          /\ leg'.sl_order_id
    /\ broker'.modifies # broker.modifies =>
          /\ leg.sl_order_id
          /\ broker'.sl_orders = broker.sl_orders
    /\ \A t \in Threads :
          (pc[t] = "x_finish" /\ pc'[t] # "x_finish") => ~leg'.sl_order_id

C25_SingleStopOrder == [](broker.sl_orders <= 1) /\ [][C25_Step]_vars

\* a leg whose stop order was placed once, modified and cancelled by the exit
C25_Witness ==
    /\ pc["leg"] = "done" /\ ~leg.is_active /\ leg.exit_reason # ""
    /\ broker.sl_orders = 1 /\ broker.modifies >= 1 /\ broker.cancels = 1
    /\ ~leg.sl_order_id

\* C26: an exit of a leg that refers to a stop order calls cancel_sl_order
\* before place_order; whatever cancel_sl_order did (True, False, raised)
\* the exit goes on to place_order, and leaves that call only for its end.
C26_Step ==
    \A t \in Threads :
       /\ (pc[t] = "x_cancel" /\ pc'[t] # "x_cancel") =>
             /\ pc'[t] = "x_order"
             /\ loc'[t].calls =
                   IF leg.sl_order_id THEN <<"cancel_sl_order">> ELSE <<>>
       /\ (pc[t] = "x_order" /\ pc'[t] # "x_order") =>
             /\ pc'[t] = "x_finish"
             /\ loc'[t].calls = Append(loc[t].calls, "place_order")

C26_CancelBeforeClose ==
    /\ [](\A t \in Threads : pc[t] = "x_finish" =>
             loc[t].calls \in {<<"cancel_sl_order", "place_order">>,
                               <<"place_order">>})
    /\ [][C26_Step]_vars

\* a closing order accepted after a cancel that left the stop order pending
C26_Witness ==
    /\ pc["leg"] = "x_finish"
    /\ loc["leg"].calls = <<"cancel_sl_order", "place_order">>
    /\ broker.cancels = 1 /\ broker.sl_status = "pending"
    /\ loc["leg"].result = "ORDER_ID"
    /\ broker.exit_orders = 1

\* ------------------------------------------------------------------------
\* Properties of the exit time
\* ------------------------------------------------------------------------
ExitTimeReached == sched.exit_time # NoTime /\ now >= sched.exit_time

\* C29 (as stated): a monitor iteration of a leg with an exit time that
\* reaches its end at or after that time starts the TIME_EXIT, with or
\* without a price, and no iteration, raising or not, goes back to the head
\* of the loop at or after the exit time with the leg still active.
C29_Step ==
    /\ (pc["leg"] = "mon_time" /\ pc'["leg"] # "mon_time" /\ ExitTimeReached)
          => (pc'["leg"] = "x_lock" /\ loc'["leg"].reason = "TIME_EXIT")
    /\ (/\ pc["leg"] \notin {"mon_loop", "mon_register"}
        /\ pc'["leg"] = "mon_loop"
        /\ ExitTimeReached)
          => ~leg'.is_active

C29_TimeExit == [][C29_Step]_vars

\* the time after which the leg must not be entered: its exit time, or the
\* strategy end time when it has none
EntryDeadline ==
    IF sched.exit_time # NoTime THEN sched.exit_time ELSE sched.end_time

\* C30 (as stated): the entry order of a leg goes to the broker only before
\* the leg's exit time, or before the strategy end time when the leg has no
\* exit time, however long the stabilization delay and the confirmation took.
C30_Step == broker'.entry_orders # broker.entry_orders => now < EntryDeadline

C30_NoLateEntry == [][C30_Step]_vars

\* the strategy end time has come for a leg without an exit time
EndTimeReached == sched.exit_time = NoTime /\ now >= sched.end_time

\* C34 (as stated): a monitor iteration of an active leg without an exit
\* time that reaches its exit-time check at or after the strategy end time
\* starts the TIME_EXIT, so that the monitor loop ends.
C34_Step ==
    (/\ pc["leg"] = "mon_time" /\ pc'["leg"] # "mon_time"
     /\ leg.is_active /\ EndTimeReached)
        => (pc'["leg"] = "x_lock" /\ loc'["leg"].reason = "TIME_EXIT")

C34_EndTimeExit == [][C34_Step]_vars

\* ------------------------------------------------------------------------
\* Properties of the session lock
\* ------------------------------------------------------------------------
\* thread t is inside a "with self.state_lock" block
InLockedSection(t) == pc[t] \in {"x_check", "h_brk_body"}

\* thread t waits for the session lock
WaitsForLock(t) == pc[t] \in {"x_lock", "h_brk_lock"}

\* the wait and poll phases of the leg, before its entry
WaitOrPollPhase ==
    pc["leg"] \in {"wait_entry", "exit_check", "breakout", "stabilize",
                   "strike", "delaying", "confirm_start", "confirming",
                   "pre_entry"}

\* C35: the session lock is held exactly by the thread inside a locked
\* block; the holder's next step releases it and changes nothing but the
\* leg's flags (no order, no record, no price, no time passes for it, no
\* other lock); that step is always possible, so a waiting thread is never
\* blocked for good; the lock is never held during the wait and poll phases.
C35_Step ==
    \A t \in Threads : (state_lock = t /\ pc'[t] # pc[t]) =>
        /\ state_lock' = ""
        /\ UNCHANGED <<broker, db, feed, mkt, now, wt, hist>>
        /\ \A u \in Threads \ {t} : pc'[u] = pc[u]

C35_LockOnlyFlipsFlags ==
    /\ [](/\ state_lock \in Threads \cup {""}
          /\ \A t \in Threads : InLockedSection(t) <=> state_lock = t
          /\ \A t \in Threads : state_lock = t =>
                ENABLED (ExitCheckAndMark(t) \/ BrokerCloseMark(t))
          /\ (\A t \in Threads : WaitsForLock(t)) => state_lock = ""
          /\ WaitOrPollPhase => state_lock = "")
    /\ [][C35_Step]_vars

\* the callback holds the lock while the monitor thread waits for it
C35_Witness ==
    /\ state_lock = "ws" /\ pc["ws"] = "x_check"
    /\ pc["leg"] = "x_lock" /\ leg.is_active

\* ------------------------------------------------------------------------
\* Properties of a closed leg
\* ------------------------------------------------------------------------
\* the leg has been closed by an exit
LegClosed == leg.exiting /\ ~leg.is_active

\* C36 (as stated): once the leg is closed no step of either thread modifies
\* or places a stop order or places an entry order, the only closing order
\* is the one of the exit under way, and the stop and lock state of the leg
\* stays as it is.
C36_Step ==
    LegClosed =>
        /\ broker'.modifies = broker.modifies
        /\ broker'.sl_orders = broker.sl_orders
        /\ broker'.entry_orders = broker.entry_orders
        /\ broker'.exit_orders # broker.exit_orders
              => \E t \in Threads : pc[t] = "x_order" /\ pc'[t] # pc[t]
        /\ RiskFields' = RiskFields

C36_ClosedLegUntouched == [][C36_Step]_vars

\* ------------------------------------------------------------------------
\* Properties of the closing order across threads
\* ------------------------------------------------------------------------
\* the leg has been made active by its entry
EverActive == leg.entry_order_id /\ IsNum(leg.entry_price)

\* C37: a step that asks the order gateway for a closing order is the first
\* and only one of the run, and it is made for a leg that was entered.
C37_Step ==
    \A t \in Threads :
        (pc[t] = "x_order" /\ pc'[t] # pc[t]) =>
            /\ broker.exit_orders = 0
            /\ ~leg.is_active /\ leg.exiting
            /\ EverActive
            /\ \A u \in Threads \ {t} :
                  pc[u] \notin {"x_cancel", "x_order", "x_finish"}

C37_SingleClosingOrder ==
    /\ [](broker.exit_orders <= 1)
    /\ [](broker.exit_orders = 1 => EverActive)
    /\ [][C37_Step]_vars

\* both threads asked for the exit of the same leg and one order was sent
C37_Witness ==
    /\ broker.exit_orders = 1
    /\ pc["ws"] = "x_check" /\ loc["ws"].reason = "SL_BREACH"
    /\ pc["leg"] = "x_finish"

\* ------------------------------------------------------------------------
\* Properties of the trailing across threads
\* ------------------------------------------------------------------------
\* C39 (as stated): a thread raises the stop for a price only when the gain
\* of that price over the level of the last raise still crosses a trigger
\* interval, and raises the exit target only when the gain over the level
\* of the last trail does; so one crossing observed by both threads raises
\* the stop and the target once, as a single thread would.
C39_Step ==
    \A t \in Threads :
        /\ (/\ pc[t] = "m_trail_apply" /\ pc'[t] # pc[t]
            /\ leg'.current_sl # leg.current_sl)
              => RGe(RSub(loc[t].pnl_pct, leg.last_sl_trail_level),
                     GetParam("sl_trail_trigger_pct", None, TRUE))
        /\ (/\ pc[t] = "m_lock_apply" /\ pc'[t] # pc[t]
            /\ leg'.profit_exit_target # leg.profit_exit_target)
              => RGe(RSub(loc[t].pnl_pct, leg.last_trail_level),
                     GetParam("trail_trigger_pct", None, FALSE))

C39_TrailOncePerCrossing == [][C39_Step]_vars

\* ------------------------------------------------------------------------
\* Properties of the session
\* ------------------------------------------------------------------------
\* the step is made by leg thread l
LegStep(l) == pc'[l] # pc[l] /\ pc[l] # "idle"

\* C27 (as stated): a step of a leg thread, an error included, changes
\* nothing of the other leg and of the main thread; a leg thread ended by an
\* error leaves its leg not active; the summary and the COMPLETED mark of
\* the session come only after both leg threads have ended.
C27_Step ==
    \A l \in SessionLegs : LegStep(l) =>
        /\ \A k \in (SessionLegs \cup {"main"}) \ {l} : pc'[k] = pc[k]
        /\ \A k \in SessionLegs \ {l} : leg'[k] = leg[k]
        /\ UNCHANGED <<loc, db>>

C27_Isolation ==
    /\ [](\A l \in SessionLegs :
             (pc[l] = "done" /\ leg[l].outcome = "thread_error")
                => ~leg[l].is_active)
    /\ []((db.summary \/ db.session = "COMPLETED")
             => \A l \in SessionLegs : pc[l] = "done")
    /\ [][C27_Step]_vars

\* C28: the constructor fails exactly when the expiry or the high/low could
\* not be fetched, and then no leg thread is ever started and no order is
\* placed; once it succeeded the main thread starts every leg and ends only
\* after it joined every leg, whatever the persistence and the legs did.
C28_Step ==
    /\ (pc["main"] = "init" /\ pc'["main"] # "init") =>
          (pc'["main"] = "aborted"
             <=> "failed" \in {loc'["main"].expiry, loc'["main"].high_low})
    /\ pc["main"] # "init" => pc'["main"] # "aborted"
    /\ pc["main"] = "aborted" => UNCHANGED vars

C28_StartupAbort ==
    /\ [](pc["main"] = "aborted" =>
             /\ \A l \in SessionLegs : pc[l] = "idle"
             /\ broker.entry_orders = 0 /\ broker.exit_orders = 0)
    /\ [](pc["main"] \in {"join", "summary", "finished"} =>
             loc["main"].started = SessionLegs)
    /\ [](pc["main"] \in {"summary", "finished"} =>
             /\ loc["main"].joined = SessionLegs
             /\ \A l \in SessionLegs : pc[l] = "done")
    /\ [][C28_Step]_vars

\* a run that ended without persistence, after one leg thread ended by an
\* error before its entry and the entry order of the other was refused
C28_Witness ==
    /\ pc["main"] = "finished"
    /\ db.session = "none" /\ db.summary
    /\ leg["leg1"].outcome = "thread_error"
    /\ leg["leg2"].outcome = "entry_failed"
    /\ loc["main"].joined = SessionLegs

\* ------------------------------------------------------------------------
\* Properties of the stop arithmetic
\* ------------------------------------------------------------------------
\* the percentage of the entry price at which price x stands
PctOfEntry(x) == PctChange(x, leg.entry_price)

\* C31 (as stated): every value written to the stop of an entered leg is
\* entry_price * (1 + p / 100): p = -initial_sl_pct for the initial stop,
\* the exit target for a profit lock, and for a trailed stop the percentage
\* of the previous stop raised by sl_trail_move_pct for every interval
\* crossed, so that the stop moves by fractions of the entry price and never
\* by a fraction of the previous stop.
C31_Step ==
    (/\ leg'.current_sl # leg.current_sl
     /\ IsNum(leg'.current_sl) /\ IsNum(leg.entry_price))
      =>
        \/ /\ pc["leg"] = "enter_stop"
           /\ leg'.current_sl = ScaleDown(leg.entry_price, leg.initial_sl_pct)
        \/ /\ pc["leg"] = "m_trail_apply"
           /\ leg'.current_sl =
                 ScaleUp(leg.entry_price,
                         RAdd(PctOfEntry(leg.current_sl),
                              RMul(GetParam("sl_trail_move_pct", None, TRUE),
                                   R(loc["leg"].n))))
        \/ /\ pc["leg"] \notin {"enter_stop", "m_trail_apply"}
           /\ IsNum(leg'.profit_exit_target)
           /\ leg'.current_sl =
                 ScaleUp(leg.entry_price, leg'.profit_exit_target)

C31_StopFromEntry == [][C31_Step]_vars

\* C38 (as stated): a step that assigns the stop of an active leg (stop
\* trail, first profit lock, trailed profit lock) never lowers it.
C38_Step ==
    (/\ leg.is_active /\ IsNum(leg.current_sl)
     /\ leg'.current_sl # leg.current_sl)
        => IsNum(leg'.current_sl) /\ RGt(leg'.current_sl, leg.current_sl)

C38_StopNeverDecreases == [][C38_Step]_vars

\* ------------------------------------------------------------------------
\* Properties of the shared stream
\* ------------------------------------------------------------------------
\* leg l is inside the broker calls of its exit, on either thread
ExitInProgress(l) ==
    \/ pc[l] = "exit"
    \/ pc["ws"] = "callback_exit" /\ loc["ws"].symbol = l

\* C32 (as stated): while a leg is inside the broker calls of its exit, a
\* price message for the other leg can be received and handed to its
\* callback, and the other leg can register its callback and run its own
\* monitor iteration and exit.
C32_LegsNotSerialized ==
    \A l \in SessionLegs : \A k \in SessionLegs \ {l} :
        ExitInProgress(l) =>
            /\ ENABLED ReceiveLoop(k)
            /\ pc[k] = "register" => ENABLED OnPriceUpdate(k)
            /\ (pc[k] = "monitor" /\ leg[k].is_active)
                  => ENABLED MonitorThread(k, TRUE)

\* ------------------------------------------------------------------------
\* Properties of the order manager
\* ------------------------------------------------------------------------
\* the last call has returned to its caller
OrderReturned == pc["leg"] = "om_idle" /\ loc["leg"].n > 0

\* orders really go to the broker
LiveOrders == ~broker.test_mode /\ broker.auto_place_orders

BookFailures == {"raises", "not_dict", "error_status"}

BookWithoutPosition == {"empty", "other_symbol", "zero_quantity"}

\* C22: place_order never queries the position book for an entry order; an
\* exit order goes to the broker only after one query of the position book
\* in the same call; when the book answers successfully without a non-zero
\* position of the symbol, place_order returns None having sent nothing and
\* asked once; when the query fails (exception, non-dict, status other than
\* success) or shows the position, the exit order is sent.
C22_ExitOrderGuard ==
    LET l == loc["leg"]
    IN  /\ l.action = entry_action =>
              \A i \in 1..Len(l.calls) : l.calls[i] # "positionbook"
        /\ (l.action = exit_action
              /\ \E i \in 1..Len(l.calls) : l.calls[i] = "placeorder")
              => l.calls = <<"positionbook", "placeorder">>
        /\ (OrderReturned /\ LiveOrders /\ l.action = exit_action) =>
              /\ Len(l.calls) >= 1 /\ l.calls[1] = "positionbook"
              /\ l.responses[1] \in BookWithoutPosition =>
                    l.calls = <<"positionbook">> /\ l.result = "None"
              /\ l.responses[1] \in BookFailures \cup {"held"} =>
                    l.calls = <<"positionbook", "placeorder">>

\* an exit order accepted by the broker after a failed position query
C22_Witness ==
    /\ OrderReturned /\ LiveOrders
    /\ loc["leg"].action = exit_action
    /\ loc["leg"].responses = <<"error_status", "success">>
    /\ loc["leg"].result = "ORDER_ID"
    /\ broker.exit_orders = 1

\* C24 (as stated): when the broker answers modifyorder or cancelorder with
\* 'not a pending order' / 'already executed', modify_sl_order and
\* cancel_sl_order both return True to their caller.
C24_IdempotentConflicts ==
    LET l == loc["leg"]
    IN  (/\ OrderReturned
         /\ Len(l.calls) = 1
         /\ l.calls[1] \in {"modifyorder", "cancelorder"}
         /\ l.responses[1] = "not_pending")
           => l.result = "True"

\* ------------------------------------------------------------------------
\* Properties of the confirmation phase
\* ------------------------------------------------------------------------
WtPolling(l) == wt[l].status = "polling"

WtResetOn(l) == wt[l].reset_enabled /\ Truthy(wt[l].reset_drop_pct)

\* price q lies at least pct percent below price p (cross-multiplied)
FellBy(p, q, pct) ==
    (p[1] * q[2] - q[1] * p[2]) * 100 * pct[2] >= pct[1] * p[1] * q[2]

\* target = reference * (1 + threshold / 100), cross-multiplied
TargetOf(l) ==
    LET w == wt[l] IN
    w.target_price[1] * w.reference_price[2] * 100 * w.threshold_pct[2]
      = w.target_price[2] * w.reference_price[1]
          * (100 * w.threshold_pct[2] + w.threshold_pct[1])

\* C7 (as stated): a path that rises to a peak and then falls by at least
\* the reset drop from it is never counted as threshold reached, even when
\* the peak had exceeded the target.
C7_AsStated ==
    \A l \in WLegs :
        (WtResetOn(l) /\ wt[l].status = "success")
            => ~FellBy(wt[l].current_price, mkt, wt[l].reset_drop_pct)

C7_ResetState(l) ==
    (WtPolling(l) /\ WtResetOn(l) /\ Truthy(wt[l].current_price)) =>
        /\ RLt(wt[l].current_price, wt[l].target_price)
        /\ RLe(wt[l].current_price, wt[l].highest_since_reference)
        /\ \/ ~FellBy(wt[l].highest_since_reference, wt[l].current_price,
                       wt[l].reset_drop_pct)
           \/ wt[l].highest_since_reference = wt[l].current_price
        /\ TargetOf(l)

C7_ResetStep(l) ==
    (WtPolling(l) /\ Truthy(mkt) /\ wt'[l].current_price = mkt /\ wt'[l] # wt[l]
       /\ RLt(mkt, wt[l].target_price)
       /\ FellBy(wt[l].highest_since_reference, mkt, wt[l].reset_drop_pct)
       /\ WtResetOn(l)) =>
        /\ wt'[l].reference_price = mkt
        /\ wt'[l].highest_since_reference = mkt
        /\ wt'[l].reset_count = wt[l].reset_count + 1
        /\ wt'[l].status # "success"

\* C7 (amended): with reset enabled, a polled price below the current target
\* that lies at least the reset drop below the running peak resets the
\* reference to that price, recomputes the target from it, restarts the peak
\* and counts the reset, and that poll does not return success; while the
\* loop runs no polled price has reached the target.
C7_Reset ==
    /\ [](\A l \in WLegs : C7_ResetState(l))
    /\ [][\A l \in WLegs : C7_ResetStep(l)]_vars

C7_Witness ==
    /\ WtPolling(1)
    /\ wt[1].reset_count = 2
    /\ wt[1].reference_price = R(98)
    /\ wt[1].current_price = R(98)

C8_State(l) ==
    /\ (WtPolling(l) /\ Truthy(wt[l].current_price))
          => RLt(wt[l].current_price, wt[l].target_price)
    /\ wt[l].status = "success"
          => (Truthy(wt[l].current_price)
              /\ RGe(wt[l].current_price, wt[l].target_price))
    /\ wt[l].status = "timeout"
          => ~(Truthy(wt[l].current_price)
               /\ RGe(wt[l].current_price, wt[l].target_price))

C8_Step(l) ==
    (WtPolling(l) /\ wt'[l] # wt[l]) =>
        /\ wt'[l].start_time = wt[l].start_time
        /\ wt'[l].timeout = wt[l].timeout
        /\ (wt'[l].status = "timeout") = ((now - wt[l].start_time) > wt[l].timeout
                                          /\ wt'[l].status # "success")
        /\ wt'[l].status \in {"polling", "success", "timeout"}
        /\ \A k \in WLegs \ {l} : wt'[k] = wt[k]

\* C8: the polling loop returns success at the first poll whose price is at
\* or above the current target, otherwise failure at the first poll made
\* after the timeout (counted from the start of the loop) has elapsed, with
\* or without a price; resets never move the start of the timer; a poll of
\* one leg leaves the other leg's confirmation untouched; once the timeout
\* has elapsed the loop ends.
C8_Terminates ==
    /\ [](\A l \in WLegs : C8_State(l))
    /\ [][\A l \in WLegs : C8_Step(l)]_vars
    /\ \A l \in WLegs :
          (WtPolling(l) /\ (now - wt[l].start_time) > wt[l].timeout)
              ~> ~WtPolling(l)

C8_Witness ==
    /\ wt[1].status = "timeout"
    /\ wt[1].reset_count >= 1
    /\ ~Truthy(wt[1].current_price)
    /\ WtPolling(2)

\* the confirmation of leg l has taken its reference
WtStarted(l) == wt[l].status \in {"polling", "success", "timeout"}

C40_State(l) ==
    WtStarted(l) =>
        /\ TargetOf(l)
        /\ RGe(wt[l].highest_since_reference, wt[l].reference_price)
        /\ wt[l].status = "success"
              => RGe(wt[l].current_price, wt[l].target_price)

C40_Poll(l) ==
    (WtPolling(l) /\ wt'[l] # wt[l]) =>
        /\ wt'[l].reset_count >= wt[l].reset_count
        /\ Truthy(wt'[l].current_price)
              => RGe(wt'[l].highest_since_reference, wt'[l].current_price)
        /\ wt'[l].reset_count = wt[l].reset_count
              => /\ RGe(wt'[l].highest_since_reference,
                        wt[l].highest_since_reference)
                 /\ wt'[l].reference_price = wt[l].reference_price
                 /\ wt'[l].target_price = wt[l].target_price
        /\ wt'[l].status = "success"
              => /\ Truthy(wt'[l].current_price)
                 /\ RGe(wt'[l].current_price, wt[l].target_price)
                 /\ wt'[l].target_price = wt[l].target_price

\* C40: after every poll the target is the reference raised by the
\* threshold, the running peak is at or above the reference and at or above
\* the polled price, it only grows between resets, the reset counter never
\* decreases, and a poll returns success only with a price at or above the
\* target in force at that poll.
C40_ConfirmationInvariants ==
    /\ [](\A l \in WLegs : C40_State(l))
    /\ [][\A l \in WLegs : C40_Poll(l)]_vars

\* after a reset at 98 the price has risen to 100, below the new target
C40_Witness ==
    /\ WtPolling(1)
    /\ wt[1].reset_count = 1
    /\ wt[1].reference_price = R(98)
    /\ wt[1].highest_since_reference = R(100)
    /\ wt[1].current_price = R(100)

====
